---- MODULE Spec2Model ----
(***************************************************************************)
(* BRISQUE no-reference image quality (modules/quality): the feature       *)
(* extraction of qualitybrisque.cpp (MSCN transform, AGGD fit, pairwise    *)
(* products, 36-element feature vector), the per-frame score, the          *)
(* multi-frame mean and the QualityBRISQUE object that holds the loaded    *)
(* model and range table.                                                  *)
(*                                                                         *)
(* Numbers.  The code computes in IEEE doubles.  Here a double is a        *)
(* decimal floating-point number with a four-digit mantissa, truncated     *)
(* after every operation, or one of the special values NaN, +Inf, -Inf:    *)
(*    [k |-> "num", m |-> mantissa, e |-> exponent]   value m * 10^e,      *)
(*                      m = 0 (and e = 0) or 1000 <= |m| <= 9999           *)
(*    [k |-> "nan", m |-> 0, e |-> 0]                                       *)
(*    [k |-> "inf", m |-> 1 or -1, e |-> 0]                                 *)
(* The special values follow the IEEE rules the code relies on: 0/0 is     *)
(* NaN, x/0 is an infinity, every operation on NaN gives NaN and every     *)
(* ordered comparison with NaN is false.                                   *)
(***************************************************************************)
EXTENDS Integers, Sequences, FiniteSets

\* ------------------------------------------------------------------------
\* double arithmetic
\* ------------------------------------------------------------------------

AbsInt(n) == IF n < 0 THEN -n ELSE n

SgnInt(n) == IF n > 0 THEN 1 ELSE IF n < 0 THEN -1 ELSE 0

\* C++ integer division: the quotient truncated toward zero.
TruncDiv(a, b) ==
    IF (a >= 0) = (b > 0) THEN AbsInt(a) \div AbsInt(b)
    ELSE -(AbsInt(a) \div AbsInt(b))

\* 10^n for n in 0..9.
Pow10(n) ==
    <<1, 10, 100, 1000, 10000, 100000, 1000000, 10000000, 100000000, 1000000000>>[n + 1]

\* The number of decimal digits of n >= 1.
Digits(n) ==
    CASE n < 10 -> 1
      [] n >= 10 /\ n < 100 -> 2
      [] n >= 100 /\ n < 1000 -> 3
      [] n >= 1000 /\ n < 10000 -> 4
      [] n >= 10000 /\ n < 100000 -> 5
      [] n >= 100000 /\ n < 1000000 -> 6
      [] n >= 1000000 /\ n < 10000000 -> 7
      [] n >= 10000000 /\ n < 100000000 -> 8
      [] n >= 100000000 /\ n < 1000000000 -> 9
      [] n >= 1000000000 -> 10

(***************************************************************************)
(* for (i = lo; i < lo + span; ++i) st = body(st, i), left when left(st)   *)
(* holds (a break); span is a power of 10 and the passes are taken ten     *)
(* runs at a time, in increasing order of i.                               *)
(***************************************************************************)
RECURSIVE Loop(_, _, _, _, _)
Loop(body(_, _), left(_), st, lo, span) ==
    IF left(st) THEN st
    ELSE IF span = 1 THEN body(st, lo)
    ELSE LET w  == span \div 10
             s1 == Loop(body, left, st, lo, w)
             s2 == Loop(body, left, s1, lo + w, w)
             s3 == Loop(body, left, s2, lo + 2 * w, w)
             s4 == Loop(body, left, s3, lo + 3 * w, w)
             s5 == Loop(body, left, s4, lo + 4 * w, w)
             s6 == Loop(body, left, s5, lo + 5 * w, w)
             s7 == Loop(body, left, s6, lo + 6 * w, w)
             s8 == Loop(body, left, s7, lo + 7 * w, w)
             s9 == Loop(body, left, s8, lo + 8 * w, w)
         IN  <<s1, s2, s3, s4, s5, s6, s7, s8, s9,
               Loop(body, left, s9, lo + 9 * w, w)>>[10]

\* The least power of 10 that is at least n.
Span(n) == IF n <= 1 THEN 1 ELSE Pow10(Digits(n - 1))

\* A loop without break.
NoBreak(st) == FALSE

NaN == [k |-> "nan", m |-> 0, e |-> 0]

Inf(s) == [k |-> "inf", m |-> s, e |-> 0]

Zero == [k |-> "num", m |-> 0, e |-> 0]

IsNaN(a) == a.k = "nan"

IsNum(a) == a.k = "num"

\* m * 10^e with the mantissa cut to four digits.
Norm(m, e) ==
    IF m = 0 THEN Zero
    ELSE IF Digits(AbsInt(m)) > 4
    THEN [k |-> "num", m |-> TruncDiv(m, Pow10(Digits(AbsInt(m)) - 4)),
          e |-> e + Digits(AbsInt(m)) - 4]
    ELSE [k |-> "num", m |-> m * Pow10(4 - Digits(AbsInt(m))),
          e |-> e - (4 - Digits(AbsInt(m)))]

\* An integer (a count, a pixel sum) converted to double.
FlInt(n) == Norm(n, 0)

\* A decimal literal of the source given in millionths (0.336999 is 336999).
FlMicro(n) == Norm(n, -6)

FlNeg(a) == IF IsNaN(a) THEN NaN ELSE [a EXCEPT !.m = -a.m]

FlMul(a, b) ==
    IF IsNaN(a) \/ IsNaN(b) THEN NaN
    ELSE IF a.k = "inf" \/ b.k = "inf"
         THEN IF SgnInt(a.m) * SgnInt(b.m) = 0 THEN NaN
              ELSE Inf(SgnInt(a.m) * SgnInt(b.m))
    ELSE Norm(a.m * b.m, a.e + b.e)

FlDiv(a, b) ==
    IF IsNaN(a) \/ IsNaN(b) THEN NaN
    ELSE IF a.k = "inf"
         THEN IF b.k = "inf" THEN NaN
              ELSE Inf(SgnInt(a.m) * (IF b.m >= 0 THEN 1 ELSE -1))
    ELSE IF b.k = "inf" THEN Zero
    ELSE IF b.m = 0 THEN (IF a.m = 0 THEN NaN ELSE Inf(SgnInt(a.m)))
    ELSE IF a.m = 0 THEN Zero
    ELSE Norm(TruncDiv(a.m * 100000, b.m), a.e - b.e - 5)

FlAddNum(hi, lo) ==
    LET d == hi.e - lo.e
    IN  IF d > 8 THEN hi
        ELSE Norm(hi.m * 10000
                    + (IF d <= 4 THEN lo.m * Pow10(4 - d)
                       ELSE TruncDiv(lo.m, Pow10(d - 4))),
                  hi.e - 4)

FlAdd(a, b) ==
    IF IsNaN(a) \/ IsNaN(b) THEN NaN
    ELSE IF a.k = "inf"
         THEN IF b.k = "inf" /\ b.m # a.m THEN NaN ELSE a
    ELSE IF b.k = "inf" THEN b
    ELSE IF a.m = 0 THEN b
    ELSE IF b.m = 0 THEN a
    ELSE IF a.e >= b.e THEN FlAddNum(a, b) ELSE FlAddNum(b, a)

FlSub(a, b) == FlAdd(a, FlNeg(b))

\* a > b as the code's operator > decides it: false when either is NaN.
FlGt(a, b) ==
    /\ ~IsNaN(a)
    /\ ~IsNaN(b)
    /\ ~IsNaN(FlSub(a, b))
    /\ FlSub(a, b).m > 0

FlLt(a, b) == FlGt(b, a)

\* r * r <= n without overflow, for 0 <= n < 2^31.
SquareAtMost(r, n) == r <= 46340 /\ r * r <= n

\* r plus the largest multiple d * p, d in 0..9, whose square stays within n.
SqrtDigit(n, r, p) ==
    r + p * (CHOOSE d \in 0..9 : /\ SquareAtMost(r + d * p, n)
                                 /\ d = 9 \/ ~SquareAtMost(r + (d + 1) * p, n))

\* The largest r with r * r <= n, for 0 <= n < 2^31, digit by digit.
Isqrt(n) ==
    LET r4 == SqrtDigit(n, 0, 10000)
        r3 == SqrtDigit(n, r4, 1000)
        r2 == SqrtDigit(n, r3, 100)
        r1 == SqrtDigit(n, r2, 10)
    IN  <<r4, r3, r2, r1, SqrtDigit(n, r1, 1)>>[5]

\* cv::pow(x, 0.5) of a scalar and sqrt(x).
FlSqrt(a) ==
    IF IsNaN(a) THEN NaN
    ELSE IF a.k = "inf" THEN (IF a.m > 0 THEN a ELSE NaN)
    ELSE IF a.m < 0 THEN NaN
    ELSE IF a.m = 0 THEN Zero
    ELSE IF a.e % 2 = 0 THEN Norm(Isqrt(a.m * 10000), (a.e \div 2) - 2)
    ELSE Norm(Isqrt(a.m * 100000), ((a.e - 1) \div 2) - 2)

\* ------------------------------------------------------------------------
\* AGGDfit: the search for gamma (lines 159-170)
\* ------------------------------------------------------------------------

(***************************************************************************)
(* r_gam of line 164, tgamma(2/gam)^2 / (tgamma(1/gam) * tgamma(3/gam)),   *)
(* in millionths, for every value the float loop variable gam takes:       *)
(* gam starts at 0.2f and grows by 0.001f while gam < 10, which is 9800    *)
(* values, the k-th being 0.2 + (k-1)/1000 to within 0.0005 (the last is   *)
(* 9.99941).  RGamTable[k] belongs to the k-th value.                      *)
(***************************************************************************)
RGamTable ==
<<
    62937, 63760, 64585, 65413, 66243, 67075, 67909, 68746, 69584, 70425, 71268, 72112, 72959, 73807,
    74657, 75509, 76362, 77218, 78074, 78932, 79792, 80653, 81516, 82380, 83245, 84111, 84979, 85848,
    86718, 87589, 88461, 89334, 90208, 91083, 91959, 92835, 93713, 94591, 95470, 96350, 97230, 98111,
    98992, 99874, 100757, 101640, 102523, 103407, 104291, 105176, 106061, 106946, 107831, 108717, 109603, 110489,
    111375, 112261, 113147, 114034, 114920, 115806, 116693, 117579, 118465, 119351, 120237, 121123, 122009, 122894,
    123779, 124664, 125549, 126433, 127317, 128201, 129084, 129967, 130850, 131732, 132613, 133495, 134375, 135256,
    136135, 137014, 137893, 138771, 139649, 140525, 141402, 142277, 143152, 144026, 144900, 145773, 146645, 147516,
    148387, 149257, 150126, 150994, 151862, 152728, 153594, 154459, 155324, 156187, 157049, 157911, 158771, 159631,
    160490, 161348, 162205, 163060, 163915, 164769, 165622, 166474, 167325, 168175, 169024, 169872, 170719, 171565,
    172409, 173253, 174096, 174937, 175777, 176617, 177455, 178292, 179128, 179963, 180796, 181629, 182460, 183290,
    184119, 184947, 185774, 186599, 187423, 188246, 189068, 189889, 190708, 191526, 192343, 193159, 193974, 194787,
    195599, 196410, 197219, 198028, 198835, 199640, 200445, 201248, 202050, 202851, 203650, 204448, 205245, 206041,
    206835, 207628, 208419, 209210, 209999, 210787, 211573, 212358, 213142, 213924, 214705, 215485, 216264, 217041,
    217817, 218591, 219364, 220136, 220907, 221676, 222444, 223210, 223976, 224739, 225502, 226263, 227023, 227781,
    228538, 229294, 230048, 230802, 231553, 232304, 233053, 233800, 234547, 235292, 236035, 236777, 237518, 238258,
    238996, 239733, 240468, 241203, 241935, 242667, 243397, 244126, 244853, 245579, 246304, 247027, 247749, 248470,
    249189, 249907, 250624, 251339, 252053, 252765, 253477, 254186, 254895, 255602, 256308, 257013, 257716, 258418,
    259118, 259817, 260515, 261212, 261907, 262601, 263293, 263984, 264674, 265363, 266050, 266736, 267420, 268103,
    268785, 269466, 270145, 270823, 271500, 272175, 272849, 273522, 274193, 274863, 275532, 276200, 276866, 277531,
    278194, 278857, 279518, 280177, 280836, 281493, 282149, 282803, 283457, 284109, 284759, 285409, 286057, 286704,
    287350, 287994, 288637, 289279, 289919, 290559, 291197, 291834, 292469, 293103, 293736, 294368, 294999, 295628,
    296256, 296883, 297508, 298133, 298756, 299377, 299998, 300617, 301236, 301853, 302468, 303083, 303696, 304308,
    304919, 305529, 306137, 306744, 307350, 307955, 308559, 309161, 309762, 310362, 310961, 311559, 312155, 312750,
    313345, 313937, 314529, 315120, 315709, 316297, 316884, 317470, 318055, 318639, 319221, 319802, 320382, 320961,
    321539, 322116, 322691, 323265, 323839, 324411, 324982, 325551, 326120, 326688, 327254, 327819, 328384, 328947,
    329509, 330069, 330629, 331188, 331745, 332302, 332857, 333411, 333964, 334516, 335067, 335617, 336166, 336713,
    337260, 337805, 338350, 338893, 339435, 339976, 340516, 341055, 341593, 342130, 342666, 343201, 343735, 344267,
    344799, 345330, 345859, 346388, 346915, 347441, 347967, 348491, 349014, 349537, 350058, 350578, 351097, 351616,
    352133, 352649, 353164, 353678, 354191, 354703, 355214, 355724, 356234, 356742, 357249, 357755, 358260, 358764,
    359267, 359769, 360271, 360771, 361270, 361768, 362265, 362762, 363257, 363751, 364245, 364737, 365229, 365719,
    366209, 366697, 367185, 367672, 368158, 368642, 369126, 369609, 370091, 370572, 371053, 371532, 372010, 372487,
    372964, 373439, 373914, 374388, 374860, 375332, 375803, 376273, 376742, 377210, 377678, 378144, 378610, 379074,
    379538, 380001, 380463, 380924, 381384, 381843, 382302, 382759, 383216, 383672, 384126, 384580, 385034, 385486,
    385937, 386388, 386838, 387286, 387734, 388182, 388628, 389073, 389518, 389962, 390404, 390846, 391288, 391728,
    392168, 392606, 393044, 393481, 393917, 394353, 394787, 395221, 395654, 396086, 396517, 396948, 397377, 397806,
    398234, 398661, 399088, 399513, 399938, 400362, 400785, 401208, 401629, 402050, 402470, 402890, 403308, 403726,
    404143, 404559, 404974, 405389, 405802, 406215, 406628, 407039, 407450, 407860, 408269, 408677, 409085, 409492,
    409898, 410304, 410708, 411112, 411515, 411918, 412319, 412720, 413120, 413520, 413918, 414316, 414713, 415110,
    415506, 415901, 416295, 416689, 417081, 417473, 417865, 418256, 418645, 419035, 419423, 419811, 420198, 420585,
    420970, 421355, 421739, 422123, 422506, 422888, 423269, 423650, 424030, 424410, 424788, 425166, 425544, 425920,
    426296, 426672, 427046, 427420, 427793, 428166, 428538, 428909, 429279, 429649, 430019, 430387, 430755, 431122,
    431489, 431855, 432220, 432584, 432948, 433311, 433674, 434036, 434397, 434758, 435118, 435477, 435836, 436194,
    436552, 436908, 437265, 437620, 437975, 438329, 438683, 439036, 439388, 439740, 440091, 440442, 440791, 441141,
    441489, 441837, 442185, 442531, 442878, 443223, 443568, 443912, 444256, 444599, 444942, 445284, 445625, 445966,
    446306, 446645, 446984, 447323, 447660, 447997, 448334, 448670, 449005, 449340, 449674, 450008, 450341, 450673,
    451005, 451336, 451667, 451997, 452327, 452656, 452984, 453312, 453639, 453966, 454292, 454618, 454943, 455267,
    455591, 455914, 456237, 456559, 456881, 457202, 457523, 457843, 458162, 458481, 458799, 459117, 459434, 459751,
    460067, 460383, 460698, 461012, 461326, 461640, 461953, 462265, 462577, 462888, 463199, 463509, 463819, 464128,
    464437, 464745, 465053, 465360, 465666, 465972, 466278, 466583, 466887, 467191, 467495, 467798, 468100, 468402,
    468704, 469005, 469305, 469605, 469904, 470203, 470502, 470799, 471097, 471394, 471690, 471986, 472281, 472576,
    472871, 473165, 473458, 473751, 474044, 474335, 474627, 474918, 475208, 475498, 475788, 476077, 476366, 476654,
    476941, 477228, 477515, 477801, 478087, 478372, 478657, 478941, 479225, 479508, 479791, 480074, 480356, 480637,
    480918, 481199, 481479, 481759, 482038, 482316, 482595, 482873, 483150, 483427, 483703, 483979, 484255, 484530,
    484804, 485079, 485352, 485626, 485899, 486171, 486443, 486714, 486986, 487256, 487526, 487796, 488065, 488334,
    488603, 488871, 489138, 489406, 489672, 489939, 490204, 490470, 490735, 490999, 491264, 491527, 491791, 492054,
    492316, 492578, 492840, 493101, 493362, 493622, 493882, 494141, 494400, 494659, 494917, 495175, 495433, 495690,
    495946, 496203, 496459, 496714, 496969, 497224, 497478, 497732, 497985, 498238, 498490, 498743, 498994, 499246,
    499497, 499747, 499998, 500247, 500497, 500746, 500995, 501243, 501491, 501738, 501985, 502232, 502478, 502724,
    502970, 503215, 503460, 503704, 503948, 504191, 504435, 504678, 504920, 505162, 505404, 505645, 505886, 506127,
    506367, 506607, 506846, 507085, 507324, 507562, 507800, 508038, 508275, 508512, 508749, 508985, 509221, 509456,
    509691, 509926, 510160, 510394, 510628, 510861, 511094, 511326, 511559, 511790, 512022, 512253, 512484, 512714,
    512944, 513174, 513403, 513632, 513861, 514089, 514317, 514545, 514772, 514999, 515225, 515452, 515678, 515903,
    516128, 516353, 516578, 516802, 517026, 517249, 517472, 517695, 517917, 518140, 518361, 518583, 518804, 519025,
    519245, 519465, 519685, 519905, 520124, 520343, 520561, 520779, 520997, 521215, 521432, 521649, 521865, 522081,
    522297, 522513, 522728, 522943, 523157, 523372, 523586, 523799, 524013, 524226, 524438, 524651, 524863, 525074,
    525286, 525497, 525708, 525918, 526128, 526338, 526548, 526757, 526966, 527175, 527383, 527591, 527799, 528006,
    528213, 528420, 528626, 528833, 529038, 529244, 529449, 529654, 529859, 530063, 530267, 530471, 530675, 530878,
    531081, 531283, 531485, 531687, 531889, 532091, 532292, 532492, 532693, 532893, 533093, 533293, 533492, 533691,
    533890, 534088, 534287, 534485, 534682, 534880, 535077, 535273, 535470, 535666, 535862, 536058, 536253, 536448,
    536643, 536837, 537032, 537226, 537419, 537613, 537806, 537999, 538191, 538384, 538576, 538767, 538959, 539150,
    539341, 539532, 539722, 539912, 540102, 540292, 540481, 540670, 540859, 541047, 541235, 541423, 541611, 541798,
    541986, 542173, 542359, 542546, 542732, 542917, 543103, 543288, 543473, 543658, 543843, 544027, 544211, 544395,
    544578, 544762, 544944, 545127, 545310, 545492, 545674, 545856, 546037, 546218, 546399, 546580, 546760, 546940,
    547120, 547300, 547479, 547659, 547838, 548016, 548195, 548373, 548551, 548728, 548906, 549083, 549260, 549437,
    549613, 549789, 549965, 550141, 550317, 550492, 550667, 550842, 551016, 551190, 551364, 551538, 551712, 551885,
    552058, 552231, 552404, 552576, 552748, 552920, 553092, 553263, 553434, 553605, 553776, 553946, 554117, 554287,
    554456, 554626, 554795, 554964, 555133, 555302, 555470, 555638, 555806, 555974, 556142, 556309, 556476, 556643,
    556809, 556976, 557142, 557308, 557473, 557639, 557804, 557969, 558134, 558298, 558463, 558627, 558791, 558954,
    559118, 559281, 559444, 559607, 559770, 559932, 560094, 560256, 560418, 560579, 560740, 560902, 561062, 561223,
    561383, 561544, 561704, 561863, 562023, 562182, 562341, 562500, 562659, 562818, 562976, 563134, 563292, 563449,
    563607, 563764, 563921, 564078, 564235, 564391, 564547, 564703, 564859, 565015, 565170, 565325, 565480, 565635,
    565789, 565944, 566098, 566252, 566406, 566559, 566712, 566866, 567019, 567171, 567324, 567476, 567628, 567780,
    567932, 568084, 568235, 568386, 568537, 568688, 568838, 568989, 569139, 569289, 569439, 569588, 569737, 569887,
    570036, 570184, 570333, 570482, 570630, 570778, 570926, 571073, 571221, 571368, 571515, 571662, 571809, 571955,
    572101, 572248, 572393, 572539, 572685, 572830, 572975, 573120, 573265, 573410, 573554, 573699, 573843, 573986,
    574130, 574274, 574417, 574560, 574703, 574846, 574989, 575131, 575273, 575415, 575557, 575699, 575840, 575982,
    576123, 576264, 576405, 576545, 576686, 576826, 576966, 577106, 577246, 577385, 577525, 577664, 577803, 577942,
    578080, 578219, 578357, 578495, 578633, 578771, 578909, 579046, 579183, 579320, 579457, 579594, 579731, 579867,
    580003, 580139, 580275, 580411, 580547, 580682, 580817, 580952, 581087, 581222, 581356, 581491, 581625, 581759,
    581893, 582027, 582160, 582293, 582427, 582560, 582693, 582825, 582958, 583090, 583222, 583355, 583486, 583618,
    583750, 583881, 584012, 584143, 584274, 584405, 584536, 584666, 584796, 584926, 585056, 585186, 585316, 585445,
    585575, 585704, 585833, 585961, 586090, 586219, 586347, 586475, 586603, 586731, 586859, 586986, 587114, 587241,
    587368, 587495, 587622, 587749, 587875, 588001, 588128, 588254, 588379, 588505, 588631, 588756, 588881, 589006,
    589131, 589256, 589381, 589505, 589630, 589754, 589878, 590002, 590125, 590249, 590373, 590496, 590619, 590742,
    590865, 590987, 591110, 591232, 591355, 591477, 591599, 591721, 591842, 591964, 592085, 592206, 592327, 592448,
    592569, 592690, 592810, 592931, 593051, 593171, 593291, 593411, 593530, 593650, 593769, 593888, 594007, 594126,
    594245, 594364, 594482, 594601, 594719, 594837, 594955, 595073, 595190, 595308, 595425, 595542, 595659, 595776,
    595893, 596010, 596126, 596243, 596359, 596475, 596591, 596707, 596823, 596938, 597054, 597169, 597284, 597399,
    597514, 597629, 597744, 597858, 597973, 598087, 598201, 598315, 598429, 598542, 598656, 598769, 598883, 598996,
    599109, 599222, 599335, 599447, 599560, 599672, 599784, 599896, 600008, 600120, 600232, 600344, 600455, 600566,
    600678, 600789, 600900, 601010, 601121, 601232, 601342, 601452, 601562, 601673, 601782, 601892, 602002, 602111,
    602221, 602330, 602439, 602548, 602657, 602766, 602875, 602983, 603092, 603200, 603308, 603416, 603524, 603632,
    603739, 603847, 603954, 604062, 604169, 604276, 604383, 604489, 604596, 604703, 604809, 604915, 605022, 605128,
    605234, 605339, 605445, 605551, 605656, 605762, 605867, 605972, 606077, 606182, 606286, 606391, 606496, 606600,
    606704, 606808, 606912, 607016, 607120, 607224, 607327, 607431, 607534, 607637, 607740, 607843, 607946, 608049,
    608152, 608254, 608357, 608459, 608561, 608663, 608765, 608867, 608968, 609070, 609172, 609273, 609374, 609475,
    609576, 609677, 609778, 609879, 609979, 610080, 610180, 610280, 610380, 610480, 610580, 610680, 610780, 610879,
    610979, 611078, 611177, 611276, 611376, 611474, 611573, 611672, 611770, 611869, 611967, 612066, 612164, 612262,
    612360, 612457, 612555, 612653, 612750, 612848, 612945, 613042, 613139, 613236, 613333, 613430, 613526, 613623,
    613719, 613815, 613912, 614008, 614104, 614200, 614295, 614391, 614487, 614582, 614677, 614773, 614868, 614963,
    615058, 615153, 615247, 615342, 615437, 615531, 615625, 615719, 615814, 615908, 616001, 616095, 616189, 616283,
    616376, 616469, 616563, 616656, 616749, 616842, 616935, 617028, 617120, 617213, 617306, 617398, 617490, 617582,
    617674, 617766, 617858, 617950, 618042, 618133, 618225, 618316, 618408, 618499, 618590, 618681, 618772, 618863,
    618953, 619044, 619134, 619225, 619315, 619405, 619495, 619585, 619675, 619765, 619855, 619945, 620034, 620124,
    620213, 620302, 620391, 620480, 620569, 620658, 620747, 620836, 620924, 621013, 621101, 621190, 621278, 621366,
    621454, 621542, 621630, 621717, 621805, 621893, 621980, 622067, 622155, 622242, 622329, 622416, 622503, 622590,
    622676, 622763, 622850, 622936, 623022, 623109, 623195, 623281, 623367, 623453, 623539, 623624, 623710, 623796,
    623881, 623966, 624052, 624137, 624222, 624307, 624392, 624477, 624561, 624646, 624731, 624815, 624899, 624984,
    625068, 625152, 625236, 625320, 625404, 625488, 625571, 625655, 625738, 625822, 625905, 625988, 626072, 626155,
    626238, 626321, 626403, 626486, 626569, 626651, 626734, 626816, 626898, 626981, 627063, 627145, 627227, 627309,
    627390, 627472, 627554, 627635, 627717, 627798, 627879, 627960, 628042, 628123, 628204, 628284, 628365, 628446,
    628526, 628607, 628687, 628768, 628848, 628928, 629008, 629088, 629168, 629248, 629328, 629408, 629487, 629567,
    629646, 629726, 629805, 629884, 629963, 630042, 630121, 630200, 630279, 630358, 630436, 630515, 630593, 630672,
    630750, 630828, 630907, 630985, 631063, 631141, 631219, 631296, 631374, 631452, 631529, 631607, 631684, 631761,
    631838, 631916, 631993, 632070, 632147, 632223, 632300, 632377, 632453, 632530, 632606, 632683, 632759, 632835,
    632911, 632987, 633063, 633139, 633215, 633291, 633367, 633442, 633518, 633593, 633669, 633744, 633819, 633894,
    633969, 634044, 634119, 634194, 634269, 634344, 634418, 634493, 634567, 634642, 634716, 634790, 634864, 634938,
    635012, 635086, 635160, 635234, 635308, 635381, 635455, 635529, 635602, 635675, 635749, 635822, 635895, 635968,
    636041, 636114, 636187, 636260, 636332, 636405, 636478, 636550, 636622, 636695, 636767, 636839, 636911, 636983,
    637055, 637127, 637199, 637271, 637343, 637414, 637486, 637557, 637629, 637700, 637771, 637843, 637914, 637985,
    638056, 638127, 638198, 638268, 638339, 638410, 638480, 638551, 638621, 638692, 638762, 638832, 638902, 638973,
    639043, 639113, 639182, 639252, 639322, 639392, 639461, 639531, 639600, 639670, 639739, 639808, 639878, 639947,
    640016, 640085, 640154, 640223, 640292, 640360, 640429, 640498, 640566, 640635, 640703, 640771, 640840, 640908,
    640976, 641044, 641112, 641180, 641248, 641316, 641384, 641451, 641519, 641586, 641654, 641721, 641789, 641856,
    641923, 641990, 642058, 642125, 642192, 642258, 642325, 642392, 642459, 642526, 642592, 642659, 642725, 642791,
    642858, 642924, 642990, 643056, 643123, 643189, 643255, 643320, 643386, 643452, 643518, 643583, 643649, 643714,
    643780, 643845, 643911, 643976, 644041, 644106, 644171, 644236, 644301, 644366, 644431, 644496, 644561, 644625,
    644690, 644754, 644819, 644883, 644948, 645012, 645076, 645140, 645204, 645268, 645332, 645396, 645460, 645524,
    645588, 645651, 645715, 645779, 645842, 645905, 645969, 646032, 646095, 646159, 646222, 646285, 646348, 646411,
    646474, 646537, 646599, 646662, 646725, 646787, 646850, 646912, 646975, 647037, 647100, 647162, 647224, 647286,
    647348, 647410, 647472, 647534, 647596, 647658, 647720, 647781, 647843, 647904, 647966, 648027, 648089, 648150,
    648211, 648273, 648334, 648395, 648456, 648517, 648578, 648639, 648700, 648760, 648821, 648882, 648942, 649003,
    649063, 649124, 649184, 649244, 649305, 649365, 649425, 649485, 649545, 649605, 649665, 649725, 649785, 649845,
    649904, 649964, 650024, 650083, 650143, 650202, 650261, 650321, 650380, 650439, 650498, 650558, 650617, 650676,
    650735, 650793, 650852, 650911, 650970, 651028, 651087, 651146, 651204, 651263, 651321, 651379, 651438, 651496,
    651554, 651612, 651670, 651728, 651786, 651844, 651902, 651960, 652018, 652076, 652133, 652191, 652248, 652306,
    652363, 652421, 652478, 652535, 652593, 652650, 652707, 652764, 652821, 652878, 652935, 652992, 653049, 653106,
    653162, 653219, 653276, 653332, 653389, 653445, 653502, 653558, 653614, 653671, 653727, 653783, 653839, 653895,
    653951, 654007, 654063, 654119, 654175, 654231, 654286, 654342, 654398, 654453, 654509, 654564, 654620, 654675,
    654730, 654786, 654841, 654896, 654951, 655006, 655061, 655116, 655171, 655226, 655281, 655336, 655390, 655445,
    655500, 655554, 655609, 655663, 655718, 655772, 655827, 655881, 655935, 655989, 656043, 656098, 656152, 656206,
    656260, 656313, 656367, 656421, 656475, 656529, 656582, 656636, 656690, 656743, 656797, 656850, 656903, 656957,
    657010, 657063, 657116, 657170, 657223, 657276, 657329, 657382, 657435, 657488, 657540, 657593, 657646, 657699,
    657751, 657804, 657856, 657909, 657961, 658014, 658066, 658118, 658171, 658223, 658275, 658327, 658379, 658431,
    658483, 658535, 658587, 658639, 658691, 658743, 658794, 658846, 658898, 658949, 659001, 659052, 659104, 659155,
    659207, 659258, 659309, 659360, 659412, 659463, 659514, 659565, 659616, 659667, 659718, 659769, 659819, 659870,
    659921, 659972, 660022, 660073, 660123, 660174, 660224, 660275, 660325, 660376, 660426, 660476, 660526, 660577,
    660627, 660677, 660727, 660777, 660827, 660877, 660927, 660976, 661026, 661076, 661126, 661175, 661225, 661275,
    661324, 661374, 661423, 661472, 661522, 661571, 661620, 661670, 661719, 661768, 661817, 661866, 661915, 661964,
    662013, 662062, 662111, 662160, 662208, 662257, 662306, 662354, 662403, 662452, 662500, 662549, 662597, 662645,
    662694, 662742, 662790, 662839, 662887, 662935, 662983, 663031, 663079, 663127, 663175, 663223, 663271, 663319,
    663367, 663414, 663462, 663510, 663557, 663605, 663652, 663700, 663747, 663795, 663842, 663889, 663937, 663984,
    664031, 664078, 664126, 664173, 664220, 664267, 664314, 664361, 664408, 664454, 664501, 664548, 664595, 664642,
    664688, 664735, 664781, 664828, 664874, 664921, 664967, 665014, 665060, 665106, 665153, 665199, 665245, 665291,
    665337, 665384, 665430, 665476, 665522, 665567, 665613, 665659, 665705, 665751, 665797, 665842, 665888, 665933,
    665979, 666025, 666070, 666116, 666161, 666206, 666252, 666297, 666342, 666388, 666433, 666478, 666523, 666568,
    666613, 666658, 666703, 666748, 666793, 666838, 666883, 666928, 666972, 667017, 667062, 667106, 667151, 667196,
    667240, 667285, 667329, 667374, 667418, 667462, 667507, 667551, 667595, 667639, 667683, 667728, 667772, 667816,
    667860, 667904, 667948, 667992, 668036, 668079, 668123, 668167, 668211, 668254, 668298, 668342, 668385, 668429,
    668472, 668516, 668559, 668603, 668646, 668689, 668733, 668776, 668819, 668862, 668906, 668949, 668992, 669035,
    669078, 669121, 669164, 669207, 669250, 669292, 669335, 669378, 669421, 669464, 669506, 669549, 669591, 669634,
    669677, 669719, 669762, 669804, 669846, 669889, 669931, 669973, 670016, 670058, 670100, 670142, 670184, 670226,
    670268, 670310, 670352, 670394, 670436, 670478, 670520, 670562, 670604, 670645, 670687, 670729, 670770, 670812,
    670854, 670895, 670937, 670978, 671020, 671061, 671102, 671144, 671185, 671226, 671268, 671309, 671350, 671391,
    671432, 671473, 671514, 671555, 671596, 671637, 671678, 671719, 671760, 671801, 671842, 671882, 671923, 671964,
    672004, 672045, 672086, 672126, 672167, 672207, 672248, 672288, 672329, 672369, 672409, 672450, 672490, 672530,
    672570, 672610, 672651, 672691, 672731, 672771, 672811, 672851, 672891, 672931, 672971, 673010, 673050, 673090,
    673130, 673169, 673209, 673249, 673288, 673328, 673368, 673407, 673447, 673486, 673526, 673565, 673604, 673644,
    673683, 673722, 673762, 673801, 673840, 673879, 673918, 673957, 673997, 674036, 674075, 674114, 674153, 674191,
    674230, 674269, 674308, 674347, 674386, 674424, 674463, 674502, 674540, 674579, 674618, 674656, 674695, 674733,
    674772, 674810, 674848, 674887, 674925, 674963, 675002, 675040, 675078, 675116, 675155, 675193, 675231, 675269,
    675307, 675345, 675383, 675421, 675459, 675497, 675535, 675572, 675610, 675648, 675686, 675723, 675761, 675799,
    675836, 675874, 675912, 675949, 675987, 676024, 676062, 676099, 676136, 676174, 676211, 676248, 676286, 676323,
    676360, 676397, 676434, 676472, 676509, 676546, 676583, 676620, 676657, 676694, 676731, 676768, 676805, 676841,
    676878, 676915, 676952, 676989, 677025, 677062, 677099, 677135, 677172, 677208, 677245, 677281, 677318, 677354,
    677391, 677427, 677464, 677500, 677536, 677572, 677609, 677645, 677681, 677717, 677754, 677790, 677826, 677862,
    677898, 677934, 677970, 678006, 678042, 678078, 678113, 678149, 678185, 678221, 678257, 678292, 678328, 678364,
    678399, 678435, 678471, 678506, 678542, 678577, 678613, 678648, 678684, 678719, 678755, 678790, 678825, 678861,
    678896, 678931, 678966, 679001, 679037, 679072, 679107, 679142, 679177, 679212, 679247, 679282, 679317, 679352,
    679387, 679422, 679457, 679491, 679526, 679561, 679596, 679630, 679665, 679700, 679734, 679769, 679804, 679838,
    679873, 679907, 679942, 679976, 680011, 680045, 680079, 680114, 680148, 680182, 680217, 680251, 680285, 680319,
    680353, 680388, 680422, 680456, 680490, 680524, 680558, 680592, 680626, 680660, 680694, 680728, 680762, 680795,
    680829, 680863, 680897, 680931, 680964, 680998, 681032, 681065, 681099, 681132, 681166, 681200, 681233, 681267,
    681300, 681333, 681367, 681400, 681434, 681467, 681500, 681534, 681567, 681600, 681633, 681666, 681700, 681733,
    681766, 681799, 681832, 681865, 681898, 681931, 681964, 681997, 682030, 682063, 682096, 682129, 682161, 682194,
    682227, 682260, 682292, 682325, 682358, 682390, 682423, 682456, 682488, 682521, 682553, 682586, 682618, 682651,
    682683, 682716, 682748, 682780, 682813, 682845, 682877, 682910, 682942, 682974, 683006, 683039, 683071, 683103,
    683135, 683167, 683199, 683231, 683263, 683295, 683327, 683359, 683391, 683423, 683455, 683487, 683518, 683550,
    683582, 683614, 683645, 683677, 683709, 683740, 683772, 683804, 683835, 683867, 683898, 683930, 683961, 683993,
    684024, 684056, 684087, 684119, 684150, 684181, 684213, 684244, 684275, 684306, 684338, 684369, 684400, 684431,
    684462, 684493, 684525, 684556, 684587, 684618, 684649, 684680, 684711, 684742, 684772, 684803, 684834, 684865,
    684896, 684927, 684957, 684988, 685019, 685050, 685080, 685111, 685142, 685172, 685203, 685233, 685264, 685294,
    685325, 685355, 685386, 685416, 685447, 685477, 685508, 685538, 685568, 685599, 685629, 685659, 685689, 685720,
    685750, 685780, 685810, 685840, 685870, 685900, 685931, 685961, 685991, 686021, 686051, 686081, 686111, 686140,
    686170, 686200, 686230, 686260, 686290, 686320, 686349, 686379, 686409, 686439, 686468, 686498, 686528, 686557,
    686587, 686616, 686646, 686675, 686705, 686734, 686764, 686793, 686823, 686852, 686882, 686911, 686940, 686970,
    686999, 687028, 687058, 687087, 687116, 687145, 687174, 687204, 687233, 687262, 687291, 687320, 687349, 687378,
    687407, 687436, 687465, 687494, 687523, 687552, 687581, 687610, 687639, 687667, 687696, 687725, 687754, 687783,
    687811, 687840, 687869, 687897, 687926, 687955, 687983, 688012, 688040, 688069, 688098, 688126, 688155, 688183,
    688211, 688240, 688268, 688297, 688325, 688353, 688382, 688410, 688438, 688467, 688495, 688523, 688551, 688579,
    688608, 688636, 688664, 688692, 688720, 688748, 688776, 688804, 688832, 688860, 688888, 688916, 688944, 688972,
    689000, 689028, 689056, 689084, 689111, 689139, 689167, 689195, 689223, 689250, 689278, 689306, 689333, 689361,
    689389, 689416, 689444, 689471, 689499, 689526, 689554, 689581, 689609, 689636, 689664, 689691, 689719, 689746,
    689773, 689801, 689828, 689855, 689883, 689910, 689937, 689964, 689992, 690019, 690046, 690073, 690100, 690127,
    690154, 690181, 690209, 690236, 690263, 690290, 690317, 690344, 690370, 690397, 690424, 690451, 690478, 690505,
    690532, 690559, 690585, 690612, 690639, 690666, 690692, 690719, 690746, 690772, 690799, 690826, 690852, 690879,
    690906, 690932, 690959, 690985, 691012, 691038, 691065, 691091, 691117, 691144, 691170, 691197, 691223, 691249,
    691276, 691302, 691328, 691355, 691381, 691407, 691433, 691459, 691486, 691512, 691538, 691564, 691590, 691616,
    691642, 691668, 691694, 691720, 691746, 691772, 691798, 691824, 691850, 691876, 691902, 691928, 691954, 691980,
    692006, 692031, 692057, 692083, 692109, 692134, 692160, 692186, 692211, 692237, 692263, 692288, 692314, 692340,
    692365, 692391, 692416, 692442, 692467, 692493, 692518, 692544, 692569, 692595, 692620, 692646, 692671, 692696,
    692722, 692747, 692772, 692797, 692823, 692848, 692873, 692898, 692924, 692949, 692974, 692999, 693024, 693049,
    693075, 693100, 693125, 693150, 693175, 693200, 693225, 693250, 693275, 693300, 693325, 693350, 693374, 693399,
    693424, 693449, 693474, 693499, 693524, 693548, 693573, 693598, 693623, 693647, 693672, 693697, 693721, 693746,
    693771, 693795, 693820, 693844, 693869, 693894, 693918, 693943, 693967, 693992, 694016, 694041, 694065, 694089,
    694114, 694138, 694163, 694187, 694211, 694236, 694260, 694284, 694308, 694333, 694357, 694381, 694405, 694430,
    694454, 694478, 694502, 694526, 694550, 694574, 694599, 694623, 694647, 694671, 694695, 694719, 694743, 694767,
    694791, 694815, 694838, 694862, 694886, 694910, 694934, 694958, 694982, 695006, 695029, 695053, 695077, 695101,
    695124, 695148, 695172, 695195, 695219, 695243, 695266, 695290, 695314, 695337, 695361, 695384, 695408, 695432,
    695455, 695479, 695502, 695526, 695549, 695572, 695596, 695619, 695643, 695666, 695689, 695713, 695736, 695759,
    695783, 695806, 695829, 695852, 695876, 695899, 695922, 695945, 695969, 695992, 696015, 696038, 696061, 696084,
    696107, 696130, 696153, 696177, 696200, 696223, 696246, 696269, 696292, 696314, 696337, 696360, 696383, 696406,
    696429, 696452, 696475, 696498, 696520, 696543, 696566, 696589, 696612, 696634, 696657, 696680, 696702, 696725,
    696748, 696770, 696793, 696816, 696838, 696861, 696884, 696906, 696929, 696951, 696974, 696996, 697019, 697041,
    697064, 697086, 697109, 697131, 697153, 697176, 697198, 697221, 697243, 697265, 697288, 697310, 697332, 697354,
    697377, 697399, 697421, 697443, 697466, 697488, 697510, 697532, 697554, 697576, 697599, 697621, 697643, 697665,
    697687, 697709, 697731, 697753, 697775, 697797, 697819, 697841, 697863, 697885, 697907, 697929, 697951, 697973,
    697994, 698016, 698038, 698060, 698082, 698104, 698125, 698147, 698169, 698191, 698212, 698234, 698256, 698277,
    698299, 698321, 698342, 698364, 698386, 698407, 698429, 698450, 698472, 698494, 698515, 698537, 698558, 698580,
    698601, 698623, 698644, 698665, 698687, 698708, 698730, 698751, 698772, 698794, 698815, 698836, 698858, 698879,
    698900, 698922, 698943, 698964, 698985, 699007, 699028, 699049, 699070, 699091, 699113, 699134, 699155, 699176,
    699197, 699218, 699239, 699260, 699281, 699302, 699323, 699344, 699365, 699386, 699407, 699428, 699449, 699470,
    699491, 699512, 699533, 699554, 699575, 699596, 699616, 699637, 699658, 699679, 699700, 699720, 699741, 699762,
    699783, 699803, 699824, 699845, 699865, 699886, 699907, 699927, 699948, 699969, 699989, 700010, 700030, 700051,
    700071, 700092, 700113, 700133, 700154, 700174, 700195, 700215, 700235, 700256, 700276, 700297, 700317, 700337,
    700358, 700378, 700399, 700419, 700439, 700460, 700480, 700500, 700520, 700541, 700561, 700581, 700601, 700622,
    700642, 700662, 700682, 700702, 700722, 700743, 700763, 700783, 700803, 700823, 700843, 700863, 700883, 700903,
    700923, 700943, 700963, 700983, 701003, 701023, 701043, 701063, 701083, 701103, 701123, 701143, 701162, 701182,
    701202, 701222, 701242, 701262, 701281, 701301, 701321, 701341, 701361, 701380, 701400, 701420, 701439, 701459,
    701479, 701498, 701518, 701538, 701557, 701577, 701597, 701616, 701636, 701655, 701675, 701694, 701714, 701733,
    701753, 701772, 701792, 701811, 701831, 701850, 701870, 701889, 701909, 701928, 701947, 701967, 701986, 702005,
    702025, 702044, 702063, 702083, 702102, 702121, 702141, 702160, 702179, 702198, 702218, 702237, 702256, 702275,
    702294, 702313, 702333, 702352, 702371, 702390, 702409, 702428, 702447, 702466, 702485, 702504, 702524, 702543,
    702562, 702581, 702600, 702619, 702637, 702656, 702675, 702694, 702713, 702732, 702751, 702770, 702789, 702808,
    702827, 702845, 702864, 702883, 702902, 702921, 702939, 702958, 702977, 702996, 703014, 703033, 703052, 703071,
    703089, 703108, 703127, 703145, 703164, 703182, 703201, 703220, 703238, 703257, 703276, 703294, 703313, 703331,
    703350, 703368, 703387, 703405, 703424, 703442, 703461, 703479, 703498, 703516, 703534, 703553, 703571, 703590,
    703608, 703626, 703645, 703663, 703681, 703700, 703718, 703736, 703755, 703773, 703791, 703809, 703828, 703846,
    703864, 703882, 703901, 703919, 703937, 703955, 703973, 703991, 704010, 704028, 704046, 704064, 704082, 704100,
    704118, 704136, 704154, 704172, 704190, 704208, 704226, 704244, 704262, 704280, 704298, 704316, 704334, 704352,
    704370, 704388, 704406, 704424, 704442, 704459, 704477, 704495, 704513, 704531, 704549, 704566, 704584, 704602,
    704620, 704637, 704655, 704673, 704691, 704708, 704726, 704744, 704762, 704779, 704797, 704815, 704832, 704850,
    704867, 704885, 704903, 704920, 704938, 704955, 704973, 704990, 705008, 705026, 705043, 705061, 705078, 705096,
    705113, 705131, 705148, 705165, 705183, 705200, 705218, 705235, 705252, 705270, 705287, 705305, 705322, 705339,
    705357, 705374, 705391, 705409, 705426, 705443, 705460, 705478, 705495, 705512, 705529, 705547, 705564, 705581,
    705598, 705615, 705633, 705650, 705667, 705684, 705701, 705718, 705735, 705753, 705770, 705787, 705804, 705821,
    705838, 705855, 705872, 705889, 705906, 705923, 705940, 705957, 705974, 705991, 706008, 706025, 706042, 706059,
    706076, 706092, 706109, 706126, 706143, 706160, 706177, 706194, 706210, 706227, 706244, 706261, 706278, 706294,
    706311, 706328, 706345, 706362, 706378, 706395, 706412, 706428, 706445, 706462, 706478, 706495, 706512, 706528,
    706545, 706562, 706578, 706595, 706612, 706628, 706645, 706661, 706678, 706694, 706711, 706727, 706744, 706760,
    706777, 706793, 706810, 706826, 706843, 706859, 706876, 706892, 706909, 706925, 706941, 706958, 706974, 706991,
    707007, 707023, 707040, 707056, 707072, 707089, 707105, 707121, 707138, 707154, 707170, 707186, 707203, 707219,
    707235, 707251, 707268, 707284, 707300, 707316, 707332, 707349, 707365, 707381, 707397, 707413, 707429, 707445,
    707462, 707478, 707494, 707510, 707526, 707542, 707558, 707574, 707590, 707606, 707622, 707638, 707654, 707670,
    707686, 707702, 707718, 707734, 707750, 707766, 707782, 707798, 707814, 707829, 707845, 707861, 707877, 707893,
    707909, 707925, 707940, 707956, 707972, 707988, 708004, 708019, 708035, 708051, 708067, 708083, 708098, 708114,
    708130, 708145, 708161, 708177, 708193, 708208, 708224, 708240, 708255, 708271, 708286, 708302, 708318, 708333,
    708349, 708365, 708380, 708396, 708411, 708427, 708442, 708458, 708473, 708489, 708504, 708520, 708535, 708551,
    708566, 708582, 708597, 708613, 708628, 708644, 708659, 708674, 708690, 708705, 708721, 708736, 708751, 708767,
    708782, 708797, 708813, 708828, 708843, 708859, 708874, 708889, 708905, 708920, 708935, 708950, 708966, 708981,
    708996, 709011, 709027, 709042, 709057, 709072, 709087, 709103, 709118, 709133, 709148, 709163, 709178, 709193,
    709209, 709224, 709239, 709254, 709269, 709284, 709299, 709314, 709329, 709344, 709359, 709374, 709389, 709404,
    709419, 709434, 709449, 709464, 709479, 709494, 709509, 709524, 709539, 709554, 709569, 709584, 709598, 709613,
    709628, 709643, 709658, 709673, 709688, 709702, 709717, 709732, 709747, 709762, 709777, 709791, 709806, 709821,
    709836, 709850, 709865, 709880, 709895, 709909, 709924, 709939, 709953, 709968, 709983, 709997, 710012, 710027,
    710041, 710056, 710071, 710085, 710100, 710115, 710129, 710144, 710158, 710173, 710187, 710202, 710217, 710231,
    710246, 710260, 710275, 710289, 710304, 710318, 710333, 710347, 710362, 710376, 710391, 710405, 710419, 710434,
    710448, 710463, 710477, 710491, 710506, 710520, 710535, 710549, 710563, 710578, 710592, 710606, 710621, 710635,
    710649, 710664, 710678, 710692, 710706, 710721, 710735, 710749, 710763, 710778, 710792, 710806, 710820, 710835,
    710849, 710863, 710877, 710891, 710906, 710920, 710934, 710948, 710962, 710976, 710990, 711004, 711019, 711033,
    711047, 711061, 711075, 711089, 711103, 711117, 711131, 711145, 711159, 711173, 711187, 711201, 711215, 711229,
    711243, 711257, 711271, 711285, 711299, 711313, 711327, 711341, 711355, 711369, 711383, 711397, 711410, 711424,
    711438, 711452, 711466, 711480, 711494, 711507, 711521, 711535, 711549, 711563, 711577, 711590, 711604, 711618,
    711632, 711645, 711659, 711673, 711687, 711700, 711714, 711728, 711742, 711755, 711769, 711783, 711796, 711810,
    711824, 711837, 711851, 711865, 711878, 711892, 711905, 711919, 711933, 711946, 711960, 711973, 711987, 712001,
    712014, 712028, 712041, 712055, 712068, 712082, 712095, 712109, 712122, 712136, 712149, 712163, 712176, 712190,
    712203, 712217, 712230, 712244, 712257, 712270, 712284, 712297, 712311, 712324, 712338, 712351, 712364, 712378,
    712391, 712404, 712418, 712431, 712444, 712458, 712471, 712484, 712498, 712511, 712524, 712537, 712551, 712564,
    712577, 712591, 712604, 712617, 712630, 712643, 712657, 712670, 712683, 712696, 712709, 712723, 712736, 712749,
    712762, 712775, 712788, 712802, 712815, 712828, 712841, 712854, 712867, 712880, 712893, 712906, 712919, 712933,
    712946, 712959, 712972, 712985, 712998, 713011, 713024, 713037, 713050, 713063, 713076, 713089, 713102, 713115,
    713128, 713141, 713154, 713167, 713180, 713192, 713205, 713218, 713231, 713244, 713257, 713270, 713283, 713296,
    713309, 713321, 713334, 713347, 713360, 713373, 713386, 713398, 713411, 713424, 713437, 713450, 713462, 713475,
    713488, 713501, 713513, 713526, 713539, 713552, 713564, 713577, 713590, 713603, 713615, 713628, 713641, 713653,
    713666, 713679, 713691, 713704, 713717, 713729, 713742, 713755, 713767, 713780, 713792, 713805, 713818, 713830,
    713843, 713855, 713868, 713881, 713893, 713906, 713918, 713931, 713943, 713956, 713968, 713981, 713993, 714006,
    714018, 714031, 714043, 714056, 714068, 714081, 714093, 714106, 714118, 714130, 714143, 714155, 714168, 714180,
    714193, 714205, 714217, 714230, 714242, 714254, 714267, 714279, 714291, 714304, 714316, 714329, 714341, 714353,
    714365, 714378, 714390, 714402, 714415, 714427, 714439, 714451, 714464, 714476, 714488, 714500, 714513, 714525,
    714537, 714549, 714562, 714574, 714586, 714598, 714610, 714622, 714635, 714647, 714659, 714671, 714683, 714695,
    714708, 714720, 714732, 714744, 714756, 714768, 714780, 714792, 714804, 714816, 714828, 714841, 714853, 714865,
    714877, 714889, 714901, 714913, 714925, 714937, 714949, 714961, 714973, 714985, 714997, 715009, 715021, 715033,
    715045, 715057, 715069, 715080, 715092, 715104, 715116, 715128, 715140, 715152, 715164, 715176, 715188, 715199,
    715211, 715223, 715235, 715247, 715259, 715271, 715282, 715294, 715306, 715318, 715330, 715342, 715353, 715365,
    715377, 715389, 715400, 715412, 715424, 715436, 715447, 715459, 715471, 715483, 715494, 715506, 715518, 715530,
    715541, 715553, 715565, 715576, 715588, 715600, 715611, 715623, 715635, 715646, 715658, 715670, 715681, 715693,
    715704, 715716, 715728, 715739, 715751, 715762, 715774, 715786, 715797, 715809, 715820, 715832, 715843, 715855,
    715866, 715878, 715889, 715901, 715912, 715924, 715935, 715947, 715958, 715970, 715981, 715993, 716004, 716016,
    716027, 716039, 716050, 716062, 716073, 716084, 716096, 716107, 716119, 716130, 716141, 716153, 716164, 716176,
    716187, 716198, 716210, 716221, 716232, 716244, 716255, 716266, 716278, 716289, 716300, 716312, 716323, 716334,
    716345, 716357, 716368, 716379, 716391, 716402, 716413, 716424, 716436, 716447, 716458, 716469, 716480, 716492,
    716503, 716514, 716525, 716536, 716548, 716559, 716570, 716581, 716592, 716603, 716615, 716626, 716637, 716648,
    716659, 716670, 716681, 716693, 716704, 716715, 716726, 716737, 716748, 716759, 716770, 716781, 716792, 716803,
    716814, 716825, 716836, 716848, 716859, 716870, 716881, 716892, 716903, 716914, 716925, 716936, 716947, 716958,
    716969, 716979, 716990, 717001, 717012, 717023, 717034, 717045, 717056, 717067, 717078, 717089, 717100, 717111,
    717122, 717132, 717143, 717154, 717165, 717176, 717187, 717198, 717209, 717219, 717230, 717241, 717252, 717263,
    717274, 717284, 717295, 717306, 717317, 717328, 717338, 717349, 717360, 717371, 717381, 717392, 717403, 717414,
    717424, 717435, 717446, 717457, 717467, 717478, 717489, 717499, 717510, 717521, 717532, 717542, 717553, 717564,
    717574, 717585, 717596, 717606, 717617, 717628, 717638, 717649, 717659, 717670, 717681, 717691, 717702, 717712,
    717723, 717734, 717744, 717755, 717765, 717776, 717787, 717797, 717808, 717818, 717829, 717839, 717850, 717860,
    717871, 717881, 717892, 717902, 717913, 717923, 717934, 717944, 717955, 717965, 717976, 717986, 717997, 718007,
    718018, 718028, 718038, 718049, 718059, 718070, 718080, 718091, 718101, 718111, 718122, 718132, 718143, 718153,
    718163, 718174, 718184, 718194, 718205, 718215, 718225, 718236, 718246, 718256, 718267, 718277, 718287, 718298,
    718308, 718318, 718329, 718339, 718349, 718360, 718370, 718380, 718390, 718401, 718411, 718421, 718431, 718442,
    718452, 718462, 718472, 718482, 718493, 718503, 718513, 718523, 718534, 718544, 718554, 718564, 718574, 718584,
    718595, 718605, 718615, 718625, 718635, 718645, 718655, 718666, 718676, 718686, 718696, 718706, 718716, 718726,
    718736, 718746, 718757, 718767, 718777, 718787, 718797, 718807, 718817, 718827, 718837, 718847, 718857, 718867,
    718877, 718887, 718897, 718907, 718917, 718927, 718937, 718947, 718957, 718967, 718977, 718987, 718997, 719007,
    719017, 719027, 719037, 719047, 719057, 719067, 719077, 719087, 719097, 719106, 719116, 719126, 719136, 719146,
    719156, 719166, 719176, 719186, 719195, 719205, 719215, 719225, 719235, 719245, 719255, 719264, 719274, 719284,
    719294, 719304, 719314, 719323, 719333, 719343, 719353, 719363, 719372, 719382, 719392, 719402, 719411, 719421,
    719431, 719441, 719450, 719460, 719470, 719480, 719489, 719499, 719509, 719519, 719528, 719538, 719548, 719557,
    719567, 719577, 719586, 719596, 719606, 719615, 719625, 719635, 719644, 719654, 719664, 719673, 719683, 719693,
    719702, 719712, 719721, 719731, 719741, 719750, 719760, 719770, 719779, 719789, 719798, 719808, 719817, 719827,
    719837, 719846, 719856, 719865, 719875, 719884, 719894, 719903, 719913, 719922, 719932, 719941, 719951, 719960,
    719970, 719979, 719989, 719998, 720008, 720017, 720027, 720036, 720046, 720055, 720065, 720074, 720084, 720093,
    720102, 720112, 720121, 720131, 720140, 720150, 720159, 720168, 720178, 720187, 720197, 720206, 720215, 720225,
    720234, 720243, 720253, 720262, 720271, 720281, 720290, 720300, 720309, 720318, 720328, 720337, 720346, 720355,
    720365, 720374, 720383, 720393, 720402, 720411, 720421, 720430, 720439, 720448, 720458, 720467, 720476, 720485,
    720495, 720504, 720513, 720522, 720532, 720541, 720550, 720559, 720568, 720578, 720587, 720596, 720605, 720614,
    720624, 720633, 720642, 720651, 720660, 720670, 720679, 720688, 720697, 720706, 720715, 720724, 720734, 720743,
    720752, 720761, 720770, 720779, 720788, 720797, 720806, 720816, 720825, 720834, 720843, 720852, 720861, 720870,
    720879, 720888, 720897, 720906, 720915, 720924, 720933, 720942, 720952, 720961, 720970, 720979, 720988, 720997,
    721006, 721015, 721024, 721033, 721042, 721051, 721060, 721069, 721078, 721086, 721095, 721104, 721113, 721122,
    721131, 721140, 721149, 721158, 721167, 721176, 721185, 721194, 721203, 721212, 721221, 721229, 721238, 721247,
    721256, 721265, 721274, 721283, 721292, 721300, 721309, 721318, 721327, 721336, 721345, 721354, 721362, 721371,
    721380, 721389, 721398, 721407, 721415, 721424, 721433, 721442, 721451, 721459, 721468, 721477, 721486, 721495,
    721503, 721512, 721521, 721530, 721538, 721547, 721556, 721565, 721573, 721582, 721591, 721600, 721608, 721617,
    721626, 721634, 721643, 721652, 721661, 721669, 721678, 721687, 721695, 721704, 721713, 721721, 721730, 721739,
    721747, 721756, 721765, 721773, 721782, 721791, 721799, 721808, 721816, 721825, 721834, 721842, 721851, 721860,
    721868, 721877, 721885, 721894, 721903, 721911, 721920, 721928, 721937, 721945, 721954, 721963, 721971, 721980,
    721988, 721997, 722005, 722014, 722022, 722031, 722039, 722048, 722056, 722065, 722073, 722082, 722090, 722099,
    722107, 722116, 722124, 722133, 722141, 722150, 722158, 722167, 722175, 722184, 722192, 722201, 722209, 722218,
    722226, 722234, 722243, 722251, 722260, 722268, 722277, 722285, 722293, 722302, 722310, 722319, 722327, 722335,
    722344, 722352, 722360, 722369, 722377, 722386, 722394, 722402, 722411, 722419, 722427, 722436, 722444, 722452,
    722461, 722469, 722477, 722486, 722494, 722502, 722511, 722519, 722527, 722536, 722544, 722552, 722560, 722569,
    722577, 722585, 722594, 722602, 722610, 722618, 722627, 722635, 722643, 722651, 722660, 722668, 722676, 722684,
    722692, 722701, 722709, 722717, 722725, 722734, 722742, 722750, 722758, 722766, 722775, 722783, 722791, 722799,
    722807, 722815, 722824, 722832, 722840, 722848, 722856, 722864, 722872, 722881, 722889, 722897, 722905, 722913,
    722921, 722929, 722938, 722946, 722954, 722962, 722970, 722978, 722986, 722994, 723002, 723010, 723018, 723027,
    723035, 723043, 723051, 723059, 723067, 723075, 723083, 723091, 723099, 723107, 723115, 723123, 723131, 723139,
    723147, 723155, 723163, 723171, 723179, 723187, 723195, 723203, 723211, 723219, 723227, 723235, 723243, 723251,
    723259, 723267, 723275, 723283, 723291, 723299, 723307, 723315, 723323, 723331, 723339, 723347, 723354, 723362,
    723370, 723378, 723386, 723394, 723402, 723410, 723418, 723426, 723434, 723441, 723449, 723457, 723465, 723473,
    723481, 723489, 723497, 723504, 723512, 723520, 723528, 723536, 723544, 723551, 723559, 723567, 723575, 723583,
    723591, 723598, 723606, 723614, 723622, 723630, 723637, 723645, 723653, 723661, 723669, 723676, 723684, 723692,
    723700, 723707, 723715, 723723, 723731, 723738, 723746, 723754, 723762, 723769, 723777, 723785, 723793, 723800,
    723808, 723816, 723824, 723831, 723839, 723847, 723854, 723862, 723870, 723877, 723885, 723893, 723901, 723908,
    723916, 723924, 723931, 723939, 723947, 723954, 723962, 723970, 723977, 723985, 723992, 724000, 724008, 724015,
    724023, 724031, 724038, 724046, 724053, 724061, 724069, 724076, 724084, 724091, 724099, 724107, 724114, 724122,
    724129, 724137, 724145, 724152, 724160, 724167, 724175, 724182, 724190, 724197, 724205, 724213, 724220, 724228,
    724235, 724243, 724250, 724258, 724265, 724273, 724280, 724288, 724295, 724303, 724310, 724318, 724325, 724333,
    724340, 724348, 724355, 724363, 724370, 724378, 724385, 724393, 724400, 724408, 724415, 724422, 724430, 724437,
    724445, 724452, 724460, 724467, 724475, 724482, 724489, 724497, 724504, 724512, 724519, 724526, 724534, 724541,
    724549, 724556, 724563, 724571, 724578, 724586, 724593, 724600, 724608, 724615, 724622, 724630, 724637, 724644,
    724652, 724659, 724666, 724674, 724681, 724688, 724696, 724703, 724710, 724718, 724725, 724732, 724740, 724747,
    724754, 724762, 724769, 724776, 724784, 724791, 724798, 724805, 724813, 724820, 724827, 724834, 724842, 724849,
    724856, 724864, 724871, 724878, 724885, 724893, 724900, 724907, 724914, 724921, 724929, 724936, 724943, 724950,
    724958, 724965, 724972, 724979, 724986, 724994, 725001, 725008, 725015, 725022, 725030, 725037, 725044, 725051,
    725058, 725065, 725073, 725080, 725087, 725094, 725101, 725108, 725116, 725123, 725130, 725137, 725144, 725151,
    725158, 725166, 725173, 725180, 725187, 725194, 725201, 725208, 725215, 725222, 725230, 725237, 725244, 725251,
    725258, 725265, 725272, 725279, 725286, 725293, 725300, 725307, 725314, 725322, 725329, 725336, 725343, 725350,
    725357, 725364, 725371, 725378, 725385, 725392, 725399, 725406, 725413, 725420, 725427, 725434, 725441, 725448,
    725455, 725462, 725469, 725476, 725483, 725490, 725497, 725504, 725511, 725518, 725525, 725532, 725539, 725546,
    725553, 725560, 725567, 725574, 725581, 725587, 725594, 725601, 725608, 725615, 725622, 725629, 725636, 725643,
    725650, 725657, 725664, 725671, 725677, 725684, 725691, 725698, 725705, 725712, 725719, 725726, 725733, 725739,
    725746, 725753, 725760, 725767, 725774, 725781, 725788, 725794, 725801, 725808, 725815, 725822, 725829, 725835,
    725842, 725849, 725856, 725863, 725870, 725876, 725883, 725890, 725897, 725904, 725911, 725917, 725924, 725931,
    725938, 725944, 725951, 725958, 725965, 725972, 725978, 725985, 725992, 725999, 726005, 726012, 726019, 726026,
    726033, 726039, 726046, 726053, 726059, 726066, 726073, 726080, 726086, 726093, 726100, 726107, 726113, 726120,
    726127, 726133, 726140, 726147, 726154, 726160, 726167, 726174, 726180, 726187, 726194, 726200, 726207, 726214,
    726220, 726227, 726234, 726240, 726247, 726254, 726260, 726267, 726274, 726280, 726287, 726294, 726300, 726307,
    726314, 726320, 726327, 726333, 726340, 726347, 726353, 726360, 726367, 726373, 726380, 726386, 726393, 726400,
    726406, 726413, 726419, 726426, 726433, 726439, 726446, 726452, 726459, 726465, 726472, 726479, 726485, 726492,
    726498, 726505, 726511, 726518, 726524, 726531, 726537, 726544, 726551, 726557, 726564, 726570, 726577, 726583,
    726590, 726596, 726603, 726609, 726616, 726622, 726629, 726635, 726642, 726648, 726655, 726661, 726668, 726674,
    726681, 726687, 726694, 726700, 726707, 726713, 726719, 726726, 726732, 726739, 726745, 726752, 726758, 726765,
    726771, 726778, 726784, 726790, 726797, 726803, 726810, 726816, 726823, 726829, 726835, 726842, 726848, 726855,
    726861, 726867, 726874, 726880, 726887, 726893, 726899, 726906, 726912, 726918, 726925, 726931, 726938, 726944,
    726950, 726957, 726963, 726969, 726976, 726982, 726988, 726995, 727001, 727008, 727014, 727020, 727027, 727033,
    727039, 727046, 727052, 727058, 727064, 727071, 727077, 727083, 727090, 727096, 727102, 727109, 727115, 727121,
    727128, 727134, 727140, 727146, 727153, 727159, 727165, 727172, 727178, 727184, 727190, 727197, 727203, 727209,
    727215, 727222, 727228, 727234, 727240, 727247, 727253, 727259, 727265, 727272, 727278, 727284, 727290, 727296,
    727303, 727309, 727315, 727321, 727328, 727334, 727340, 727346, 727352, 727359, 727365, 727371, 727377, 727383,
    727389, 727396, 727402, 727408, 727414, 727420, 727427, 727433, 727439, 727445, 727451, 727457, 727463, 727470,
    727476, 727482, 727488, 727494, 727500, 727507, 727513, 727519, 727525, 727531, 727537, 727543, 727549, 727555,
    727562, 727568, 727574, 727580, 727586, 727592, 727598, 727604, 727610, 727617, 727623, 727629, 727635, 727641,
    727647, 727653, 727659, 727665, 727671, 727677, 727683, 727689, 727695, 727702, 727708, 727714, 727720, 727726,
    727732, 727738, 727744, 727750, 727756, 727762, 727768, 727774, 727780, 727786, 727792, 727798, 727804, 727810,
    727816, 727822, 727828, 727834, 727840, 727846, 727852, 727858, 727864, 727870, 727876, 727882, 727888, 727894,
    727900, 727906, 727912, 727918, 727924, 727930, 727936, 727942, 727948, 727954, 727960, 727966, 727971, 727977,
    727983, 727989, 727995, 728001, 728007, 728013, 728019, 728025, 728031, 728037, 728043, 728049, 728054, 728060,
    728066, 728072, 728078, 728084, 728090, 728096, 728102, 728108, 728113, 728119, 728125, 728131, 728137, 728143,
    728149, 728155, 728160, 728166, 728172, 728178, 728184, 728190, 728196, 728201, 728207, 728213, 728219, 728225,
    728231, 728237, 728242, 728248, 728254, 728260, 728266, 728272, 728277, 728283, 728289, 728295, 728301, 728306,
    728312, 728318, 728324, 728330, 728335, 728341, 728347, 728353, 728359, 728364, 728370, 728376, 728382, 728387,
    728393, 728399, 728405, 728411, 728416, 728422, 728428, 728434, 728439, 728445, 728451, 728457, 728462, 728468,
    728474, 728480, 728485, 728491, 728497, 728503, 728508, 728514, 728520, 728525, 728531, 728537, 728543, 728548,
    728554, 728560, 728565, 728571, 728577, 728583, 728588, 728594, 728600, 728605, 728611, 728617, 728622, 728628,
    728634, 728639, 728645, 728651, 728656, 728662, 728668, 728673, 728679, 728685, 728690, 728696, 728702, 728707,
    728713, 728719, 728724, 728730, 728736, 728741, 728747, 728752, 728758, 728764, 728769, 728775, 728781, 728786,
    728792, 728797, 728803, 728809, 728814, 728820, 728825, 728831, 728837, 728842, 728848, 728853, 728859, 728865,
    728870, 728876, 728881, 728887, 728892, 728898, 728904, 728909, 728915, 728920, 728926, 728931, 728937, 728942,
    728948, 728954, 728959, 728965, 728970, 728976, 728981, 728987, 728992, 728998, 729003, 729009, 729014, 729020,
    729026, 729031, 729037, 729042, 729048, 729053, 729059, 729064, 729070, 729075, 729081, 729086, 729092, 729097,
    729103, 729108, 729114, 729119, 729125, 729130, 729135, 729141, 729146, 729152, 729157, 729163, 729168, 729174,
    729179, 729185, 729190, 729196, 729201, 729207, 729212, 729217, 729223, 729228, 729234, 729239, 729245, 729250,
    729255, 729261, 729266, 729272, 729277, 729283, 729288, 729293, 729299, 729304, 729310, 729315, 729320, 729326,
    729331, 729337, 729342, 729347, 729353, 729358, 729364, 729369, 729374, 729380, 729385, 729391, 729396, 729401,
    729407, 729412, 729417, 729423, 729428, 729433, 729439, 729444, 729450, 729455, 729460, 729466, 729471, 729476,
    729482, 729487, 729492, 729498, 729503, 729508, 729514, 729519, 729524, 729530, 729535, 729540, 729546, 729551,
    729556, 729561, 729567, 729572, 729577, 729583, 729588, 729593, 729599, 729604, 729609, 729614, 729620, 729625,
    729630, 729636, 729641, 729646, 729651, 729657, 729662, 729667, 729672, 729678, 729683, 729688, 729694, 729699,
    729704, 729709, 729715, 729720, 729725, 729730, 729736, 729741, 729746, 729751, 729756, 729762, 729767, 729772,
    729777, 729783, 729788, 729793, 729798, 729803, 729809, 729814, 729819, 729824, 729830, 729835, 729840, 729845,
    729850, 729855, 729861, 729866, 729871, 729876, 729881, 729887, 729892, 729897, 729902, 729907, 729913, 729918,
    729923, 729928, 729933, 729938, 729943, 729949, 729954, 729959, 729964, 729969, 729974, 729980, 729985, 729990,
    729995, 730000, 730005, 730010, 730016, 730021, 730026, 730031, 730036, 730041, 730046, 730051, 730057, 730062,
    730067, 730072, 730077, 730082, 730087, 730092, 730097, 730102, 730108, 730113, 730118, 730123, 730128, 730133,
    730138, 730143, 730148, 730153, 730158, 730164, 730169, 730174, 730179, 730184, 730189, 730194, 730199, 730204,
    730209, 730214, 730219, 730224, 730229, 730234, 730239, 730244, 730249, 730255, 730260, 730265, 730270, 730275,
    730280, 730285, 730290, 730295, 730300, 730305, 730310, 730315, 730320, 730325, 730330, 730335, 730340, 730345,
    730350, 730355, 730360, 730365, 730370, 730375, 730380, 730385, 730390, 730395, 730400, 730405, 730410, 730415,
    730420, 730425, 730430, 730435, 730440, 730445, 730450, 730455, 730460, 730464, 730469, 730474, 730479, 730484,
    730489, 730494, 730499, 730504, 730509, 730514, 730519, 730524, 730529, 730534, 730539, 730544, 730549, 730553,
    730558, 730563, 730568, 730573, 730578, 730583, 730588, 730593, 730598, 730603, 730607, 730612, 730617, 730622,
    730627, 730632, 730637, 730642, 730647, 730652, 730656, 730661, 730666, 730671, 730676, 730681, 730686, 730691,
    730695, 730700, 730705, 730710, 730715, 730720, 730725, 730730, 730734, 730739, 730744, 730749, 730754, 730759,
    730763, 730768, 730773, 730778, 730783, 730788, 730792, 730797, 730802, 730807, 730812, 730817, 730821, 730826,
    730831, 730836, 730841, 730846, 730850, 730855, 730860, 730865, 730870, 730874, 730879, 730884, 730889, 730894,
    730898, 730903, 730908, 730913, 730918, 730922, 730927, 730932, 730937, 730941, 730946, 730951, 730956, 730961,
    730965, 730970, 730975, 730980, 730984, 730989, 730994, 730999, 731003, 731008, 731013, 731018, 731022, 731027,
    731032, 731037, 731041, 731046, 731051, 731056, 731060, 731065, 731070, 731075, 731079, 731084, 731089, 731093,
    731098, 731103, 731108, 731112, 731117, 731122, 731126, 731131, 731136, 731141, 731145, 731150, 731155, 731159,
    731164, 731169, 731173, 731178, 731183, 731187, 731192, 731197, 731201, 731206, 731211, 731216, 731220, 731225,
    731230, 731234, 731239, 731244, 731248, 731253, 731258, 731262, 731267, 731271, 731276, 731281, 731285, 731290,
    731295, 731299, 731304, 731309, 731313, 731318, 731323, 731327, 731332, 731336, 731341, 731346, 731350, 731355,
    731360, 731364, 731369, 731373, 731378, 731383, 731387, 731392, 731396, 731401, 731406, 731410, 731415, 731419,
    731424, 731429, 731433, 731438, 731442, 731447, 731452, 731456, 731461, 731465, 731470, 731475, 731479, 731484,
    731488, 731493, 731497, 731502, 731507, 731511, 731516, 731520, 731525, 731529, 731534, 731538, 731543, 731548,
    731552, 731557, 731561, 731566, 731570, 731575, 731579, 731584, 731588, 731593, 731597, 731602, 731607, 731611,
    731616, 731620, 731625, 731629, 731634, 731638, 731643, 731647, 731652, 731656, 731661, 731665, 731670, 731674,
    731679, 731683, 731688, 731692, 731697, 731701, 731706, 731710, 731715, 731719, 731724, 731728, 731733, 731737,
    731742, 731746, 731751, 731755, 731760, 731764, 731768, 731773, 731777, 731782, 731786, 731791, 731795, 731800,
    731804, 731809, 731813, 731818, 731822, 731826, 731831, 731835, 731840, 731844, 731849, 731853, 731857, 731862,
    731866, 731871, 731875, 731880, 731884, 731888, 731893, 731897, 731902, 731906, 731911, 731915, 731919, 731924,
    731928, 731933, 731937, 731941, 731946, 731950, 731955, 731959, 731963, 731968, 731972, 731977, 731981, 731985,
    731990, 731994, 731999, 732003, 732007, 732012, 732016, 732020, 732025, 732029, 732034, 732038, 732042, 732047,
    732051, 732055, 732060, 732064, 732068, 732073, 732077, 732082, 732086, 732090, 732095, 732099, 732103, 732108,
    732112, 732116, 732121, 732125, 732129, 732134, 732138, 732142, 732147, 732151, 732155, 732160, 732164, 732168,
    732173, 732177, 732181, 732186, 732190, 732194, 732198, 732203, 732207, 732211, 732216, 732220, 732224, 732229,
    732233, 732237, 732242, 732246, 732250, 732254, 732259, 732263, 732267, 732272, 732276, 732280, 732284, 732289,
    732293, 732297, 732301, 732306, 732310, 732314, 732319, 732323, 732327, 732331, 732336, 732340, 732344, 732348,
    732353, 732357, 732361, 732365, 732370, 732374, 732378, 732382, 732387, 732391, 732395, 732399, 732404, 732408,
    732412, 732416, 732421, 732425, 732429, 732433, 732437, 732442, 732446, 732450, 732454, 732459, 732463, 732467,
    732471, 732475, 732480, 732484, 732488, 732492, 732496, 732501, 732505, 732509, 732513, 732517, 732522, 732526,
    732530, 732534, 732538, 732543, 732547, 732551, 732555, 732559, 732563, 732568, 732572, 732576, 732580, 732584,
    732588, 732593, 732597, 732601, 732605, 732609, 732613, 732618, 732622, 732626, 732630, 732634, 732638, 732643,
    732647, 732651, 732655, 732659, 732663, 732667, 732672, 732676, 732680, 732684, 732688, 732692, 732696, 732700,
    732705, 732709, 732713, 732717, 732721, 732725, 732729, 732733, 732738, 732742, 732746, 732750, 732754, 732758,
    732762, 732766, 732770, 732775, 732779, 732783, 732787, 732791, 732795, 732799, 732803, 732807, 732811, 732815,
    732820, 732824, 732828, 732832, 732836, 732840, 732844, 732848, 732852, 732856, 732860, 732864, 732868, 732873,
    732877, 732881, 732885, 732889, 732893, 732897, 732901, 732905, 732909, 732913, 732917, 732921, 732925, 732929,
    732933, 732937, 732941, 732945, 732950, 732954, 732958, 732962, 732966, 732970, 732974, 732978, 732982, 732986,
    732990, 732994, 732998, 733002, 733006, 733010, 733014, 733018, 733022, 733026, 733030, 733034, 733038, 733042,
    733046, 733050, 733054, 733058, 733062, 733066, 733070, 733074, 733078, 733082, 733086, 733090, 733094, 733098,
    733102, 733106, 733110, 733114, 733118, 733122, 733126, 733130, 733134, 733138, 733142, 733146, 733150, 733154,
    733158, 733162, 733166, 733169, 733173, 733177, 733181, 733185, 733189, 733193, 733197, 733201, 733205, 733209,
    733213, 733217, 733221, 733225, 733229, 733233, 733237, 733241, 733244, 733248, 733252, 733256, 733260, 733264,
    733268, 733272, 733276, 733280, 733284, 733288, 733292, 733295, 733299, 733303, 733307, 733311, 733315, 733319,
    733323, 733327, 733331, 733335, 733338, 733342, 733346, 733350, 733354, 733358, 733362, 733366, 733370, 733374,
    733377, 733381, 733385, 733389, 733393, 733397, 733401, 733405, 733408, 733412, 733416, 733420, 733424, 733428,
    733432, 733436, 733439, 733443, 733447, 733451, 733455, 733459, 733463, 733466, 733470, 733474, 733478, 733482,
    733486, 733490, 733493, 733497, 733501, 733505, 733509, 733513, 733516, 733520, 733524, 733528, 733532, 733536,
    733539, 733543, 733547, 733551, 733555, 733559, 733562, 733566, 733570, 733574, 733578, 733582, 733585, 733589,
    733593, 733597, 733601, 733604, 733608, 733612, 733616, 733620, 733623, 733627, 733631, 733635, 733639, 733642,
    733646, 733650, 733654, 733658, 733661, 733665, 733669, 733673, 733676, 733680, 733684, 733688, 733692, 733695,
    733699, 733703, 733707, 733710, 733714, 733718, 733722, 733726, 733729, 733733, 733737, 733741, 733744, 733748,
    733752, 733756, 733759, 733763, 733767, 733771, 733774, 733778, 733782, 733786, 733789, 733793, 733797, 733801,
    733804, 733808, 733812, 733815, 733819, 733823, 733827, 733830, 733834, 733838, 733842, 733845, 733849, 733853,
    733856, 733860, 733864, 733868, 733871, 733875, 733879, 733882, 733886, 733890, 733894, 733897, 733901, 733905,
    733908, 733912, 733916, 733920, 733923, 733927, 733931, 733934, 733938, 733942, 733945, 733949, 733953, 733956,
    733960, 733964, 733967, 733971, 733975, 733979, 733982, 733986, 733990, 733993, 733997, 734001, 734004, 734008,
    734012, 734015, 734019, 734023, 734026, 734030, 734034, 734037, 734041, 734045, 734048, 734052, 734055, 734059,
    734063, 734066, 734070, 734074, 734077, 734081, 734085, 734088, 734092, 734096, 734099, 734103, 734106, 734110,
    734114, 734117, 734121, 734125, 734128, 734132, 734135, 734139, 734143, 734146, 734150, 734154, 734157, 734161,
    734164, 734168, 734172, 734175, 734179, 734182, 734186, 734190, 734193, 734197, 734200, 734204, 734208, 734211,
    734215, 734218, 734222, 734226, 734229, 734233, 734236, 734240, 734244, 734247, 734251, 734254, 734258, 734261,
    734265, 734269, 734272, 734276, 734279, 734283, 734287, 734290, 734294, 734297, 734301, 734304, 734308, 734311,
    734315, 734319, 734322, 734326, 734329, 734333, 734336, 734340, 734344, 734347, 734351, 734354, 734358, 734361,
    734365, 734368, 734372, 734375, 734379, 734382, 734386, 734390, 734393, 734397, 734400, 734404, 734407, 734411,
    734414, 734418, 734421, 734425, 734428, 734432, 734435, 734439, 734442, 734446, 734450, 734453, 734457, 734460,
    734464, 734467, 734471, 734474, 734478, 734481, 734485, 734488, 734492, 734495, 734499, 734502, 734506, 734509,
    734513, 734516, 734520, 734523, 734527, 734530, 734534, 734537, 734540, 734544, 734547, 734551, 734554, 734558,
    734561, 734565, 734568, 734572, 734575, 734579, 734582, 734586, 734589, 734593, 734596, 734600, 734603, 734606,
    734610, 734613, 734617, 734620, 734624, 734627, 734631, 734634, 734638, 734641, 734644, 734648, 734651, 734655,
    734658, 734662, 734665, 734669, 734672, 734675, 734679, 734682, 734686, 734689, 734693, 734696, 734700, 734703,
    734706, 734710, 734713, 734717, 734720, 734724, 734727, 734730, 734734, 734737, 734741, 734744, 734747, 734751,
    734754, 734758, 734761, 734764, 734768, 734771, 734775, 734778, 734782, 734785, 734788, 734792, 734795, 734799,
    734802, 734805, 734809, 734812, 734815, 734819, 734822, 734826, 734829, 734832, 734836, 734839, 734843, 734846,
    734849, 734853, 734856, 734859, 734863, 734866, 734870, 734873, 734876, 734880, 734883, 734886, 734890, 734893,
    734897, 734900, 734903, 734907, 734910, 734913, 734917, 734920, 734923, 734927, 734930, 734933, 734937, 734940,
    734944, 734947, 734950, 734954, 734957, 734960, 734964, 734967, 734970, 734974, 734977, 734980, 734984, 734987,
    734990, 734994, 734997, 735000, 735004, 735007, 735010, 735014, 735017, 735020, 735024, 735027, 735030, 735034,
    735037, 735040, 735043, 735047, 735050, 735053, 735057, 735060, 735063, 735067, 735070, 735073, 735077, 735080,
    735083, 735086, 735090, 735093, 735096, 735100, 735103, 735106, 735110, 735113, 735116, 735119, 735123, 735126,
    735129, 735133, 735136, 735139, 735142, 735146, 735149, 735152, 735156, 735159, 735162, 735165, 735169, 735172,
    735175, 735178, 735182, 735185, 735188, 735192, 735195, 735198, 735201, 735205, 735208, 735211, 735214, 735218,
    735221, 735224, 735227, 735231, 735234, 735237, 735240, 735244, 735247, 735250, 735253, 735257, 735260, 735263,
    735266, 735270, 735273, 735276, 735279, 735283, 735286, 735289, 735292, 735295, 735299, 735302, 735305, 735308,
    735312, 735315, 735318, 735321, 735325, 735328, 735331, 735334, 735337, 735341, 735344, 735347, 735350, 735353,
    735357, 735360, 735363, 735366, 735370, 735373, 735376, 735379, 735382, 735386, 735389, 735392, 735395, 735398,
    735402, 735405, 735408, 735411, 735414, 735418, 735421, 735424, 735427, 735430, 735433, 735437, 735440, 735443,
    735446, 735449, 735453, 735456, 735459, 735462, 735465, 735468, 735472, 735475, 735478, 735481, 735484, 735487,
    735491, 735494, 735497, 735500, 735503, 735506, 735510, 735513, 735516, 735519, 735522, 735525, 735529, 735532,
    735535, 735538, 735541, 735544, 735547, 735551, 735554, 735557, 735560, 735563, 735566, 735569, 735573, 735576,
    735579, 735582, 735585, 735588, 735591, 735595, 735598, 735601, 735604, 735607, 735610, 735613, 735616, 735620,
    735623, 735626, 735629, 735632, 735635, 735638, 735641, 735645, 735648, 735651, 735654, 735657, 735660, 735663,
    735666, 735669, 735673, 735676, 735679, 735682, 735685, 735688, 735691, 735694, 735697, 735700, 735704, 735707,
    735710, 735713, 735716, 735719, 735722, 735725, 735728, 735731, 735734, 735738, 735741, 735744, 735747, 735750,
    735753, 735756, 735759, 735762, 735765, 735768, 735771, 735775, 735778, 735781, 735784, 735787, 735790, 735793,
    735796, 735799, 735802, 735805, 735808, 735811, 735814, 735817, 735821, 735824, 735827, 735830, 735833, 735836,
    735839, 735842, 735845, 735848, 735851, 735854, 735857, 735860, 735863, 735866, 735869, 735872, 735875, 735878,
    735882, 735885, 735888, 735891, 735894, 735897, 735900, 735903, 735906, 735909, 735912, 735915, 735918, 735921,
    735924, 735927, 735930, 735933, 735936, 735939, 735942, 735945, 735948, 735951, 735954, 735957, 735960, 735963,
    735966, 735969, 735972, 735975, 735978, 735981, 735984, 735987, 735990, 735993, 735996, 735999, 736002, 736005,
    736008, 736011, 736014, 736017, 736020, 736023, 736026, 736029, 736032, 736035, 736038, 736041, 736044, 736047,
    736050, 736053, 736056, 736059, 736062, 736065, 736068, 736071, 736074, 736077, 736080, 736083, 736086, 736089,
    736092, 736095, 736098, 736101, 736104, 736107, 736110, 736113, 736116, 736119, 736122, 736125, 736127, 736130,
    736133, 736136, 736139, 736142, 736145, 736148, 736151, 736154, 736157, 736160, 736163, 736166, 736169, 736172,
    736175, 736178, 736181, 736184, 736187, 736189, 736192, 736195, 736198, 736201, 736204, 736207, 736210, 736213,
    736216, 736219, 736222, 736225, 736228, 736231, 736233, 736236, 736239, 736242, 736245, 736248, 736251, 736254,
    736257, 736260, 736263, 736266, 736269, 736271, 736274, 736277, 736280, 736283, 736286, 736289, 736292, 736295,
    736298, 736301, 736303, 736306, 736309, 736312, 736315, 736318, 736321, 736324, 736327, 736330, 736332, 736335,
    736338, 736341, 736344, 736347, 736350, 736353, 736356, 736358, 736361, 736364, 736367, 736370, 736373, 736376,
    736379, 736382, 736384, 736387, 736390, 736393, 736396, 736399, 736402, 736405, 736407, 736410, 736413, 736416,
    736419, 736422, 736425, 736427, 736430, 736433, 736436, 736439, 736442, 736445, 736448, 736450, 736453, 736456,
    736459, 736462, 736465, 736468, 736470, 736473, 736476, 736479, 736482, 736485, 736487, 736490, 736493, 736496,
    736499, 736502, 736505, 736507, 736510, 736513, 736516, 736519, 736522, 736524, 736527, 736530, 736533, 736536,
    736539, 736541, 736544, 736547, 736550, 736553, 736556, 736558, 736561, 736564, 736567, 736570, 736572, 736575,
    736578, 736581, 736584, 736587, 736589, 736592, 736595, 736598, 736601, 736603, 736606, 736609, 736612, 736615,
    736617, 736620, 736623, 736626, 736629, 736631, 736634, 736637, 736640, 736643, 736645, 736648, 736651, 736654,
    736657, 736659, 736662, 736665, 736668, 736671, 736673, 736676, 736679, 736682, 736684, 736687, 736690, 736693,
    736696, 736698, 736701, 736704, 736707, 736710, 736712, 736715, 736718, 736721, 736723, 736726, 736729, 736732,
    736734, 736737, 736740, 736743, 736746, 736748, 736751, 736754, 736757, 736759, 736762, 736765, 736768, 736770,
    736773, 736776, 736779, 736781, 736784, 736787, 736790, 736792, 736795, 736798, 736801, 736803, 736806, 736809,
    736812, 736814, 736817, 736820, 736823, 736825, 736828, 736831, 736834, 736836, 736839, 736842, 736844, 736847,
    736850, 736853, 736855, 736858, 736861, 736864, 736866, 736869, 736872, 736875, 736877, 736880, 736883, 736885,
    736888, 736891, 736894, 736896, 736899, 736902, 736904, 736907, 736910, 736913, 736915, 736918, 736921, 736923,
    736926, 736929, 736932, 736934, 736937, 736940, 736942, 736945, 736948, 736950, 736953, 736956, 736959, 736961,
    736964, 736967, 736969, 736972, 736975, 736977, 736980, 736983, 736985, 736988, 736991, 736994, 736996, 736999,
    737002, 737004, 737007, 737010, 737012, 737015, 737018, 737020, 737023, 737026, 737028, 737031, 737034, 737036,
    737039, 737042, 737044, 737047, 737050, 737052, 737055, 737058, 737060, 737063, 737066, 737068, 737071, 737074,
    737076, 737079, 737082, 737084, 737087, 737090, 737092, 737095, 737098, 737100, 737103, 737106, 737108, 737111,
    737114, 737116, 737119, 737122, 737124, 737127, 737130, 737132, 737135, 737137, 737140, 737143, 737145, 737148,
    737151, 737153, 737156, 737159, 737161, 737164, 737166, 737169, 737172, 737174, 737177, 737180, 737182, 737185,
    737188, 737190, 737193, 737195, 737198, 737201, 737203, 737206, 737209, 737211, 737214, 737216, 737219, 737222,
    737224, 737227, 737229, 737232, 737235, 737237, 737240, 737243, 737245, 737248, 737250, 737253, 737256, 737258,
    737261, 737263, 737266, 737269, 737271, 737274, 737276, 737279, 737282, 737284, 737287, 737289, 737292, 737295,
    737297, 737300, 737302, 737305, 737308, 737310, 737313, 737315, 737318, 737320, 737323, 737326, 737328, 737331,
    737333, 737336, 737339, 737341, 737344, 737346, 737349, 737351, 737354, 737357, 737359, 737362, 737364, 737367,
    737369, 737372, 737375, 737377, 737380, 737382, 737385, 737387, 737390, 737393, 737395, 737398, 737400, 737403,
    737405, 737408, 737410, 737413, 737416, 737418, 737421, 737423, 737426, 737428, 737431, 737433, 737436, 737439,
    737441, 737444, 737446, 737449, 737451, 737454, 737456, 737459, 737461, 737464, 737467, 737469, 737472, 737474,
    737477, 737479, 737482, 737484, 737487, 737489, 737492, 737494, 737497, 737500, 737502, 737505, 737507, 737510,
    737512, 737515, 737517, 737520, 737522, 737525, 737527, 737530, 737532, 737535, 737537, 737540, 737542, 737545,
    737547, 737550, 737553, 737555, 737558, 737560, 737563, 737565, 737568, 737570, 737573, 737575, 737578, 737580,
    737583, 737585, 737588, 737590, 737593, 737595, 737598, 737600, 737603, 737605, 737608, 737610, 737613, 737615,
    737618, 737620, 737623, 737625, 737628, 737630, 737633, 737635, 737638, 737640, 737643, 737645, 737648, 737650,
    737653, 737655, 737657, 737660, 737662, 737665, 737667, 737670, 737672, 737675, 737677, 737680, 737682, 737685,
    737687, 737690, 737692, 737695, 737697, 737700, 737702, 737705, 737707, 737709, 737712, 737714, 737717, 737719,
    737722, 737724, 737727, 737729, 737732, 737734, 737737, 737739, 737741, 737744, 737746, 737749, 737751, 737754,
    737756, 737759, 737761, 737764, 737766, 737768, 737771, 737773, 737776, 737778, 737781, 737783, 737786, 737788,
    737791, 737793, 737795, 737798, 737800, 737803, 737805, 737808, 737810, 737812, 737815, 737817, 737820, 737822,
    737825, 737827, 737829, 737832, 737834, 737837, 737839, 737842, 737844, 737846, 737849, 737851, 737854, 737856,
    737859, 737861, 737863, 737866, 737868, 737871, 737873, 737876, 737878, 737880, 737883, 737885, 737888, 737890,
    737892, 737895, 737897, 737900, 737902, 737905, 737907, 737909, 737912, 737914, 737917, 737919, 737921, 737924,
    737926, 737929, 737931, 737933, 737936, 737938, 737941, 737943, 737945, 737948, 737950, 737953, 737955, 737957,
    737960, 737962, 737965, 737967, 737969, 737972, 737974, 737976, 737979, 737981, 737984, 737986, 737988, 737991,
    737993, 737996, 737998, 738000, 738003, 738005, 738007, 738010, 738012, 738015, 738017, 738019, 738022, 738024,
    738026, 738029, 738031, 738034, 738036, 738038, 738041, 738043, 738045, 738048, 738050, 738052, 738055, 738057,
    738060, 738062, 738064, 738067, 738069, 738071, 738074, 738076, 738078, 738081, 738083, 738086, 738088, 738090,
    738093, 738095, 738097, 738100, 738102, 738104, 738107, 738109, 738111, 738114, 738116, 738118, 738121, 738123,
    738125, 738128, 738130, 738132, 738135, 738137, 738140, 738142, 738144, 738147, 738149, 738151, 738154, 738156,
    738158, 738161, 738163, 738165, 738168, 738170, 738172, 738175, 738177, 738179, 738181, 738184, 738186, 738188,
    738191, 738193, 738195, 738198, 738200, 738202, 738205, 738207, 738209, 738212, 738214, 738216, 738219, 738221,
    738223, 738226, 738228, 738230, 738232, 738235, 738237, 738239, 738242, 738244, 738246, 738249, 738251, 738253,
    738256, 738258, 738260, 738262, 738265, 738267, 738269, 738272, 738274, 738276, 738279, 738281, 738283, 738285,
    738288, 738290, 738292, 738295, 738297, 738299, 738302, 738304, 738306, 738308, 738311, 738313, 738315, 738318,
    738320, 738322, 738324, 738327, 738329, 738331, 738334, 738336, 738338, 738340, 738343, 738345, 738347, 738349,
    738352, 738354, 738356, 738359, 738361, 738363, 738365, 738368, 738370, 738372, 738374, 738377, 738379, 738381,
    738384, 738386, 738388, 738390, 738393, 738395, 738397, 738399, 738402, 738404, 738406, 738408, 738411, 738413,
    738415, 738417, 738420, 738422, 738424, 738427, 738429, 738431, 738433, 738436, 738438, 738440, 738442, 738445,
    738447, 738449, 738451, 738454, 738456, 738458, 738460, 738462, 738465, 738467, 738469, 738471, 738474, 738476,
    738478, 738480, 738483, 738485, 738487, 738489, 738492, 738494, 738496, 738498, 738501, 738503, 738505, 738507,
    738509, 738512, 738514, 738516, 738518, 738521, 738523, 738525, 738527, 738530, 738532, 738534, 738536, 738538,
    738541, 738543, 738545, 738547, 738549, 738552, 738554, 738556, 738558, 738561, 738563, 738565, 738567, 738569,
    738572, 738574, 738576, 738578, 738580, 738583, 738585, 738587, 738589, 738592, 738594, 738596, 738598, 738600,
    738603, 738605, 738607, 738609, 738611, 738614, 738616, 738618, 738620, 738622, 738625, 738627, 738629, 738631,
    738633, 738636, 738638, 738640, 738642, 738644, 738646, 738649, 738651, 738653, 738655, 738657, 738660, 738662,
    738664, 738666, 738668, 738671, 738673, 738675, 738677, 738679, 738681, 738684, 738686, 738688, 738690, 738692,
    738694, 738697, 738699, 738701, 738703, 738705, 738708, 738710, 738712, 738714, 738716, 738718, 738721, 738723,
    738725, 738727, 738729, 738731, 738734, 738736, 738738, 738740, 738742, 738744, 738747, 738749, 738751, 738753,
    738755, 738757, 738759, 738762, 738764, 738766, 738768, 738770, 738772, 738775, 738777, 738779, 738781, 738783,
    738785, 738787, 738790, 738792, 738794, 738796, 738798, 738800, 738803, 738805, 738807, 738809, 738811, 738813,
    738815, 738818, 738820, 738822, 738824, 738826, 738828, 738830, 738832, 738835, 738837, 738839, 738841, 738843,
    738845, 738847, 738850, 738852, 738854, 738856, 738858, 738860, 738862, 738864, 738867, 738869, 738871, 738873,
    738875, 738877, 738879, 738881, 738884, 738886, 738888, 738890, 738892, 738894, 738896, 738898, 738901, 738903,
    738905, 738907, 738909, 738911, 738913, 738915, 738917, 738920, 738922, 738924, 738926, 738928, 738930, 738932,
    738934, 738936, 738939, 738941, 738943, 738945, 738947, 738949, 738951, 738953, 738955, 738957, 738960, 738962,
    738964, 738966, 738968, 738970, 738972, 738974, 738976, 738978, 738981, 738983, 738985, 738987, 738989, 738991,
    738993, 738995, 738997, 738999, 739001, 739004, 739006, 739008, 739010, 739012, 739014, 739016, 739018, 739020,
    739022, 739024, 739026, 739029, 739031, 739033, 739035, 739037, 739039, 739041, 739043, 739045, 739047, 739049,
    739051, 739053, 739055, 739058, 739060, 739062, 739064, 739066, 739068, 739070, 739072, 739074, 739076, 739078,
    739080, 739082, 739084, 739087, 739089, 739091, 739093, 739095, 739097, 739099, 739101, 739103, 739105, 739107,
    739109, 739111, 739113, 739115, 739117, 739119, 739122, 739124, 739126, 739128, 739130, 739132, 739134, 739136,
    739138, 739140, 739142, 739144, 739146, 739148, 739150, 739152, 739154, 739156, 739158, 739160, 739162, 739165,
    739167, 739169, 739171, 739173, 739175, 739177, 739179, 739181, 739183, 739185, 739187, 739189, 739191, 739193,
    739195, 739197, 739199, 739201, 739203, 739205, 739207, 739209, 739211, 739213, 739215, 739217, 739219, 739221,
    739223, 739225, 739228, 739230, 739232, 739234, 739236, 739238, 739240, 739242, 739244, 739246, 739248, 739250,
    739252, 739254, 739256, 739258, 739260, 739262, 739264, 739266, 739268, 739270, 739272, 739274, 739276, 739278,
    739280, 739282, 739284, 739286, 739288, 739290, 739292, 739294, 739296, 739298, 739300, 739302, 739304, 739306,
    739308, 739310, 739312, 739314, 739316, 739318, 739320, 739322, 739324, 739326, 739328, 739330, 739332, 739334,
    739336, 739338, 739340, 739342, 739344, 739346, 739348, 739350, 739352, 739354, 739356, 739358, 739360, 739362,
    739364, 739366, 739368, 739370, 739372, 739374, 739376, 739378, 739380, 739382, 739384, 739386, 739388, 739390,
    739392, 739394, 739395, 739397, 739399, 739401, 739403, 739405, 739407, 739409, 739411, 739413, 739415, 739417,
    739419, 739421, 739423, 739425, 739427, 739429, 739431, 739433, 739435, 739437, 739439, 739441, 739443, 739445,
    739447, 739449, 739451, 739453, 739455, 739456, 739458, 739460, 739462, 739464, 739466, 739468, 739470, 739472,
    739474, 739476, 739478, 739480, 739482, 739484, 739486, 739488, 739490, 739492, 739494, 739496, 739497, 739499,
    739501, 739503, 739505, 739507, 739509, 739511, 739513, 739515, 739517, 739519, 739521, 739523, 739525, 739527,
    739529, 739531, 739532, 739534, 739536, 739538, 739540, 739542, 739544, 739546, 739548, 739550, 739552, 739554,
    739556, 739558, 739560, 739561, 739563, 739565, 739567, 739569, 739571, 739573, 739575, 739577, 739579, 739581,
    739583, 739585, 739587, 739588, 739590, 739592, 739594, 739596, 739598, 739600, 739602, 739604, 739606, 739608,
    739610, 739611, 739613, 739615, 739617, 739619, 739621, 739623, 739625, 739627, 739629, 739631, 739633, 739634,
    739636, 739638, 739640, 739642, 739644, 739646, 739648, 739650, 739652, 739653, 739655, 739657, 739659, 739661,
    739663, 739665, 739667, 739669, 739671, 739673, 739674, 739676, 739678, 739680, 739682, 739684, 739686, 739688,
    739690, 739691, 739693, 739695, 739697, 739699, 739701, 739703, 739705, 739707, 739708, 739710, 739712, 739714,
    739716, 739718, 739720, 739722, 739724, 739725, 739727, 739729, 739731, 739733, 739735, 739737, 739739, 739741,
    739742, 739744, 739746, 739748, 739750, 739752, 739754, 739756, 739757, 739759, 739761, 739763, 739765, 739767,
    739769, 739771, 739772, 739774, 739776, 739778, 739780, 739782, 739784, 739786, 739787, 739789, 739791, 739793,
    739795, 739797, 739799, 739800, 739802, 739804, 739806, 739808, 739810, 739812, 739813, 739815, 739817, 739819,
    739821, 739823, 739825, 739826, 739828, 739830, 739832, 739834, 739836, 739838, 739839, 739841, 739843, 739845,
    739847, 739849, 739851, 739852, 739854, 739856, 739858, 739860, 739862, 739864, 739865, 739867, 739869, 739871,
    739873, 739875, 739876, 739878, 739880, 739882, 739884, 739886, 739887, 739889, 739891, 739893, 739895, 739897,
    739898, 739900, 739902, 739904, 739906, 739908, 739910, 739911, 739913, 739915, 739917, 739919, 739920, 739922,
    739924, 739926, 739928, 739930, 739931, 739933, 739935, 739937, 739939, 739941, 739942, 739944, 739946, 739948,
    739950, 739952, 739953, 739955, 739957, 739959, 739961, 739962, 739964, 739966, 739968, 739970, 739972, 739973,
    739975, 739977, 739979, 739981, 739982, 739984, 739986, 739988, 739990, 739992, 739993, 739995, 739997, 739999,
    740001, 740002, 740004, 740006, 740008, 740010, 740011, 740013, 740015, 740017, 740019, 740020, 740022, 740024,
    740026, 740028, 740029, 740031, 740033, 740035, 740037, 740038, 740040, 740042, 740044, 740046, 740047, 740049,
    740051, 740053, 740055, 740056, 740058, 740060, 740062, 740064, 740065, 740067, 740069, 740071, 740073, 740074,
    740076, 740078, 740080, 740081, 740083, 740085, 740087, 740089, 740090, 740092, 740094, 740096, 740098, 740099,
    740101, 740103, 740105, 740106, 740108, 740110, 740112, 740114, 740115, 740117, 740119, 740121, 740122, 740124,
    740126, 740128, 740130, 740131, 740133, 740135, 740137, 740138, 740140, 740142, 740144, 740145, 740147, 740149,
    740151, 740153, 740154, 740156, 740158, 740160, 740161, 740163, 740165, 740167, 740168, 740170, 740172, 740174,
    740176, 740177, 740179, 740181, 740183, 740184, 740186, 740188, 740190, 740191, 740193, 740195, 740197, 740198,
    740200, 740202, 740204, 740205, 740207, 740209, 740211, 740212, 740214, 740216, 740218, 740219, 740221, 740223,
    740225, 740226, 740228, 740230, 740232, 740233, 740235, 740237, 740239, 740240, 740242, 740244, 740246, 740247,
    740249, 740251, 740253, 740254, 740256, 740258, 740260, 740261, 740263, 740265, 740266, 740268, 740270, 740272,
    740273, 740275, 740277, 740279, 740280, 740282, 740284, 740286, 740287, 740289, 740291, 740292, 740294, 740296,
    740298, 740299, 740301, 740303, 740305, 740306, 740308, 740310, 740311, 740313, 740315, 740317, 740318, 740320,
    740322, 740324, 740325, 740327, 740329, 740330, 740332, 740334, 740336, 740337, 740339, 740341, 740342, 740344,
    740346, 740348, 740349, 740351, 740353, 740354, 740356, 740358, 740360, 740361, 740363, 740365, 740366, 740368,
    740370, 740372, 740373, 740375, 740377, 740378, 740380, 740382, 740384, 740385, 740387, 740389, 740390, 740392,
    740394, 740395, 740397, 740399, 740401, 740402, 740404, 740406, 740407, 740409, 740411, 740412, 740414, 740416,
    740418, 740419, 740421, 740423, 740424, 740426, 740428, 740429, 740431, 740433, 740434, 740436, 740438, 740440,
    740441, 740443, 740445, 740446, 740448, 740450, 740451, 740453, 740455, 740456, 740458, 740460, 740462, 740463,
    740465, 740467, 740468, 740470, 740472, 740473, 740475, 740477, 740478, 740480, 740482, 740483, 740485, 740487,
    740488, 740490, 740492, 740493, 740495, 740497, 740498, 740500, 740502, 740504, 740505, 740507, 740509, 740510,
    740512, 740514, 740515, 740517, 740519, 740520, 740522, 740524, 740525, 740527, 740529, 740530, 740532, 740534
>>

NumGam == Len(RGamTable)

\* GamValue with gam read after the increment of line 162 instead of before.
GamValueAfterIncrement(k) == IF k = 0 THEN Zero ELSE Norm(200 + k, -3)

\* The k-th value of gam as a double; 0 stands for prevgamma's initial 0.
GamValue(k) == IF k = 0 THEN Zero ELSE Norm(199 + k, -3)

\* rhatnorm as the search reads it: its value in millionths (saturated at
\* 2 * 10^9, far above every r_gam), and whether it exceeds 1e10.
RhatClass(rh) ==
    IF rh.k # "num" THEN [k |-> rh.k, v |-> 0, over |-> FALSE]
    ELSE IF rh.e >= 0
         THEN [k |-> "num", v |-> SgnInt(rh.m) * 2000000000,
               over |-> rh.e > 7 \/ (rh.e = 7 /\ AbsInt(rh.m) > 1000)]
    ELSE [k |-> "num",
          v |-> IF rh.e + 6 >= 0 THEN rh.m * Pow10(rh.e + 6)
                ELSE TruncDiv(rh.m, Pow10(-(rh.e + 6))),
          over |-> FALSE]

\* double diff = abs(r_gam - rhatnorm), line 165.
DiffOf(k, rc) ==
    IF rc.k = "num" THEN [k |-> "num", v |-> AbsInt(RGamTable[k] - rc.v), over |-> rc.over]
    ELSE [k |-> rc.k, v |-> 0, over |-> FALSE]

\* prevdiff = 1e10, line 160.
InitialPrevdiff == [k |-> "e10", v |-> 0, over |-> FALSE]

\* diff > prevdiff, line 166.
DiffGreater(diff, prevdiff) ==
    IF diff.k = "nan" \/ prevdiff.k = "nan" THEN FALSE
    ELSE IF prevdiff.k = "e10" THEN diff.k = "inf" \/ diff.over
    ELSE IF diff.k = "inf" THEN prevdiff.k # "inf"
    ELSE IF prevdiff.k = "inf" THEN FALSE
    ELSE diff.v > prevdiff.v

\* GammaPass without the break of line 166.
GammaPassNoBreak(st, k, rc) ==
    IF k > NumGam THEN st
    ELSE [stopped |-> FALSE, prevdiff |-> DiffOf(k, rc), prevgamma |-> k, examined |-> k]

\* One pass of the loop body, lines 164-168, for the k-th value of gam; no
\* pass is taken for k beyond the last gam below 10 (the loop test of line
\* 162).  examined counts the values of gam for which r_gam was computed.
GammaPass(st, k, rc) ==
    IF k > NumGam THEN st
    ELSE IF DiffGreater(DiffOf(k, rc), st.prevdiff)
    THEN [st EXCEPT !.stopped = TRUE, !.examined = k]
    ELSE [stopped |-> FALSE, prevdiff |-> DiffOf(k, rc), prevgamma |-> k, examined |-> k]

\* The break of line 166 was taken.
GammaLeft(st) == st.stopped

\* The loop of line 162 run on the classified rhatnorm rc.
GammaLoop(rc) ==
    Loop(LAMBDA st, k : GammaPass(st, k, rc), GammaLeft,
         [stopped |-> FALSE, prevdiff |-> InitialPrevdiff, prevgamma |-> 0, examined |-> 0],
         1, Span(NumGam))

\* Lines 159-170: the loop from prevgamma = 0, prevdiff = 1e10; gamma_best
\* is prevgamma when the loop ends.
GammaSearch(rhatnorm) == GammaLoop(RhatClass(rhatnorm))
\* ------------------------------------------------------------------------
\* Images and the OpenCV calls of ComputeBrisqueFeature (lines 178-214)
\* ------------------------------------------------------------------------

\* The array f[1], ..., f[n].
TableOf(f, n) == SubSeq(f, 1, n)

(***************************************************************************)
(* A cv::Mat of one channel is the array of its rows, each the array of    *)
(* its elements; At(mat, i, j) is mat.at(i, j) for i, j counted from 0.    *)
(* MatOf makes the r x c matrix whose element (i, j) is f[i][j].           *)
(***************************************************************************)
Rows(mat) == Len(mat)

Cols(mat) == IF Len(mat) = 0 THEN 0 ELSE Len(mat[1])

At(mat, i, j) == mat[i + 1][j + 1]

MatOf(f, r, c) ==
    TableOf([i \in 1..r |-> TableOf([j \in 1..c |-> f[i - 1][j - 1]], c)], r)

(***************************************************************************)
(* An input image is [rows, cols, pat]; its 8-bit grey levels (orig_bw     *)
(* after cvtColor and the convertTo of line 183, whose second argument     *)
(* 1.0/255 is the depth CV_8U, not a scale) are Pixel(pat, i, j).          *)
(***************************************************************************)
Patterns == {"flat", "checker", "ramp", "tex"}

Pixel(pat, i, j) ==
    CASE pat = "flat"    -> 30
      [] pat = "checker" -> IF (i + j) % 2 = 0 THEN 30 ELSE 0
      [] pat = "ramp"    -> (7 * i + 3 * j * j) % 31
      [] pat = "tex"     -> (13 * i + 3 * j * j + 5 * i * j + 9 * ((i + 2 * j) % 3)) % 31

Gray(img) ==
    MatOf([i \in 0..(img.rows - 1) |-> [j \in 0..(img.cols - 1) |-> Pixel(img.pat, i, j)]],
          img.rows, img.cols)

\* The sum of f[n] for n in lo..hi, f integer-valued.
RECURSIVE SumInt(_, _, _)
SumInt(f, lo, hi) ==
    IF lo > hi THEN 0
    ELSE IF lo = hi THEN f[lo]
    ELSE SumInt(f, lo, (lo + hi) \div 2) + SumInt(f, (lo + hi) \div 2 + 1, hi)

Clamp(p, n) == IF p < 0 THEN 0 ELSE IF p > n - 1 THEN n - 1 ELSE p

\* cv::resize, INTER_CUBIC, along one axis: the source index and weight (in
\* 32nds) of tap t in 0..3 for destination index x, for the lengths the
\* images below have (an even length halved, or 3 reduced to 1).  A sampling
\* point on a source pixel takes that pixel; the other points of a halving
\* lie midway between two pixels, where the cubic weights are -3, 19, 19,
\* -3.  Indices outside the source are clamped to its border.
CubicTap(x, src, dst, t) ==
    IF ((2 * x + 1) * src - dst) % (2 * dst) = 0
    THEN [at |-> Clamp(((2 * x + 1) * src - dst) \div (2 * dst), src),
          w |-> IF t = 1 THEN 32 ELSE 0]
    ELSE [at |-> Clamp(((2 * x + 1) * src - dst) \div (2 * dst) - 1 + t, src),
          w |-> IF t \in {1, 2} THEN 19 ELSE -3]

\* A value rounded from 1024ths and saturated to 8 bits.
Saturate8(acc) ==
    IF (acc + 512) \div 1024 < 0 THEN 0
    ELSE IF (acc + 512) \div 1024 > 255 THEN 255
    ELSE (acc + 512) \div 1024

\* cv::resize(orig_bw, imdist_scaled, dst_size, 0, 0, INTER_CUBIC), line 193,
\* for a non-empty dst_size: a copy when the size is unchanged, else the
\* separable cubic interpolation rounded and saturated to 8 bits.
Resize(src, r, c) ==
    IF r = Rows(src) /\ c = Cols(src) THEN src
    ELSE MatOf([i \in 0..(r - 1) |-> [j \in 0..(c - 1) |->
                  Saturate8(SumInt([n \in 0..15 |->
                      CubicTap(i, Rows(src), r, n \div 4).w
                      * CubicTap(j, Cols(src), c, n % 4).w
                      * At(src, CubicTap(i, Rows(src), r, n \div 4).at,
                                CubicTap(j, Cols(src), c, n % 4).at)], 0, 15))]],
               r, c)

\* Border handling of cv::GaussianBlur (BORDER_REFLECT_101): the index p
\* reflected into 0..n-1.
RECURSIVE Reflect101(_, _)
Reflect101(p, n) ==
    IF n = 1 THEN 0
    ELSE IF p < 0 THEN Reflect101(-p, n)
    ELSE IF p >= n THEN Reflect101(2 * (n - 1) - p, n)
    ELSE p

\* The 7-tap Gaussian kernel of sigma 1.166 in 32nds (0.40, 2.52, 7.59,
\* 10.97, ... rounded so that the weights sum to 32).
GaussKernel == <<1, 2, 8, 10, 8, 2, 1>>

\* cv::GaussianBlur(src, dst, Size(7, 7), 1.166), lines 198 and 206: the
\* weighted sum of the 7 x 7 neighbourhood, in 1024ths.
GaussianBlur(src) ==
    MatOf([i \in 0..(Rows(src) - 1) |-> [j \in 0..(Cols(src) - 1) |->
             SumInt([n \in 0..48 |->
                       GaussKernel[(n \div 7) + 1] * GaussKernel[(n % 7) + 1]
                       * At(src, Reflect101(i + (n \div 7) - 3, Rows(src)),
                                 Reflect101(j + (n % 7) - 3, Cols(src)))], 0, 48)]],
          Rows(src), Cols(src))

\* cv::pow(imdist_scaled, 2), line 204: the squares of the elements.
Squares(im) ==
    MatOf([i \in 0..(Rows(im) - 1) |-> [j \in 0..(Cols(im) - 1) |->
             At(im, i, j) * At(im, i, j)]], Rows(im), Cols(im))

(***************************************************************************)
(* Lines 201-214 from mu = GaussianBlur(im) and sq = GaussianBlur(im^2),   *)
(* both in 1024ths of a grey level (the factor 1/255 of line 194 cancels   *)
(* in the quotient of line 214, and the 1/255 of line 210 is one grey      *)
(* level):                                                                 *)
(*   sigma = sqrt(|sq - mu^2|) + 1   (cv::pow takes the absolute value     *)
(*                                    for a fractional power)              *)
(*   structdis = (im - mu) / sigma                                         *)
(* mu and sigma are exact integers in 1024ths; the quotient is a double.   *)
(***************************************************************************)
Structdis(im, mu, sq) ==
    MatOf([i \in 0..(Rows(im) - 1) |-> [j \in 0..(Cols(im) - 1) |->
             FlDiv(FlInt(1024 * At(im, i, j) - At(mu, i, j)),
                   FlInt(Isqrt(AbsInt(1024 * At(sq, i, j) - At(mu, i, j) * At(mu, i, j)))
                         + 1024))]],
          Rows(im), Cols(im))

\* Lines 194-214: the MSCN image structdis of the 8-bit image im.
MSCN(im) == Structdis(im, GaussianBlur(im), GaussianBlur(Squares(im)))

\* dst_size of line 191 for itr_scale.
ScaledRows(img, itr_scale) == img.rows \div (IF itr_scale = 1 THEN 1 ELSE 2)

ScaledCols(img, itr_scale) == img.cols \div (IF itr_scale = 1 THEN 1 ELSE 2)
\* ------------------------------------------------------------------------
\* AGGDfit (lines 124-173)
\* ------------------------------------------------------------------------

\* The accumulators of lines 129-130 before the first pixel.
AggdStart == [poscount |-> 0, negcount |-> 0, possqsum |-> Zero, negsqsum |-> Zero,
              abssum |-> Zero]

\* AggdAccumulate with pt >= 0 in place of pt > 0 in line 138.
AggdAccumulateZeroPositive(acc, pt) ==
    IF ~FlLt(pt, Zero) /\ ~IsNaN(pt)
    THEN [acc EXCEPT !.poscount = @ + 1,
                     !.possqsum = FlAdd(@, FlMul(pt, pt)),
                     !.abssum = FlAdd(@, pt)]
    ELSE IF FlLt(pt, Zero)
    THEN [acc EXCEPT !.negcount = @ + 1,
                     !.negsqsum = FlAdd(@, FlMul(pt, pt)),
                     !.abssum = FlSub(@, pt)]
    ELSE acc

\* Lines 135-147 for one pixel pt.
AggdAccumulate(acc, pt) ==
    IF FlGt(pt, Zero)
    THEN [acc EXCEPT !.poscount = @ + 1,
                     !.possqsum = FlAdd(@, FlMul(pt, pt)),
                     !.abssum = FlAdd(@, pt)]
    ELSE IF FlLt(pt, Zero)
    THEN [acc EXCEPT !.negcount = @ + 1,
                     !.negsqsum = FlAdd(@, FlMul(pt, pt)),
                     !.abssum = FlSub(@, pt)]
    ELSE acc

\* Lines 135-147 for pixel n of structdis, counted in row-major order from 0;
\* there is no pixel at or after rows * cols.
AggdPixel(acc, structdis, n) ==
    IF n >= Rows(structdis) * Cols(structdis) THEN acc
    ELSE AggdAccumulate(acc, At(structdis, n \div Cols(structdis), n % Cols(structdis)))

\* Lines 129-149: the sums over the first n pixels.
AggdSums(structdis, n) ==
    Loop(LAMBDA acc, p : IF p >= n THEN acc ELSE AggdPixel(acc, structdis, p),
         NoBreak, AggdStart, 0, Span(n))

\* Line 157.
RhatNorm(rhat, gammahat) ==
    FlDiv(FlMul(FlMul(rhat, FlAdd(FlMul(FlMul(gammahat, gammahat), gammahat), FlInt(1))),
                FlAdd(gammahat, FlInt(1))),
          FlMul(FlAdd(FlMul(gammahat, gammahat), FlInt(1)),
                FlAdd(FlMul(gammahat, gammahat), FlInt(1))))

\* Rhat with the number of non-zero pixels in place of totalcount.
RhatOverCounted(acc, totalcount) ==
    FlDiv(FlMul(FlDiv(acc.abssum, FlInt(acc.poscount + acc.negcount)),
                FlDiv(acc.abssum, FlInt(acc.poscount + acc.negcount))),
          FlDiv(FlAdd(acc.negsqsum, acc.possqsum), FlInt(acc.poscount + acc.negcount)))

\* Line 156.
Rhat(acc, totalcount) ==
    FlDiv(FlMul(FlDiv(acc.abssum, totalcount), FlDiv(acc.abssum, totalcount)),
          FlDiv(FlAdd(acc.negsqsum, acc.possqsum), totalcount))

\* Lines 151-157: lsigma_best, rsigma_best and rhatnorm from the sums.
AggdMoments(acc, total) ==
    [lsigma_best |-> FlSqrt(FlDiv(acc.negsqsum, FlInt(acc.negcount))),
     rsigma_best |-> FlSqrt(FlDiv(acc.possqsum, FlInt(acc.poscount))),
     rhatnorm |-> RhatNorm(Rhat(acc, FlInt(total)),
                           FlDiv(FlSqrt(FlDiv(acc.negsqsum, FlInt(acc.negcount))),
                                 FlSqrt(FlDiv(acc.possqsum, FlInt(acc.poscount)))))]

\* What AGGDfit hands back, with the counts and rhatnorm computed on the
\* way: gamma_index is the position of gamma_best among the values of gam
\* (0 for none), examined the number of values of gam the search computed
\* r_gam for.
AggdResult(acc, mom, found) ==
    [lsigma_best |-> mom.lsigma_best, rsigma_best |-> mom.rsigma_best,
     rhatnorm |-> mom.rhatnorm,
     poscount |-> acc.poscount, negcount |-> acc.negcount,
     gamma_best |-> GamValue(found.prevgamma), gamma_index |-> found.prevgamma,
     examined |-> found.examined]

\* Lines 159-172 from the moments.
AggdSearch(acc, mom) == AggdResult(acc, mom, GammaSearch(mom.rhatnorm))

\* Lines 151-172 from the accumulated sums of total pixels.
AggdEstimate(acc, total) == AggdSearch(acc, AggdMoments(acc, total))

\* AGGDfit(structdis, lsigma_best, rsigma_best, gamma_best), lines 124-173.
AGGDfit(structdis) ==
    AggdEstimate(AggdSums(structdis, Rows(structdis) * Cols(structdis)),
                 Cols(structdis) * Rows(structdis))

\* ------------------------------------------------------------------------
\* ComputeBrisqueFeature (lines 175-275)
\* ------------------------------------------------------------------------

\* int shifts[4][2], line 225: the row and column offset of itr_shift.
Shifts == << <<0, 1>>, <<1, 0>>, <<1, 1>>, <<-1, 1>> >>

\* PairwiseProduct with reqshift[0] taken as the column offset and
\* reqshift[1] as the row offset.
PairwiseProductTransposed(structdis, reqshift) ==
    MatOf([i \in 0..(Rows(structdis) - 1) |-> [j \in 0..(Cols(structdis) - 1) |->
             FlMul(At(structdis, i, j),
                   IF /\ i + reqshift[2] >= 0
                      /\ i + reqshift[2] < Rows(structdis)
                      /\ j + reqshift[1] >= 0
                      /\ j + reqshift[1] < Cols(structdis)
                   THEN At(structdis, i + reqshift[2], j + reqshift[1])
                   ELSE Zero)]],
          Rows(structdis), Cols(structdis))

\* Lines 233-260: shifted_structdis for reqshift, the product of structdis
\* with its shifted copy, the copy being 0 where the offset leaves the image.
PairwiseProduct(structdis, reqshift) ==
    MatOf([i \in 0..(Rows(structdis) - 1) |-> [j \in 0..(Cols(structdis) - 1) |->
             FlMul(At(structdis, i, j),
                   IF /\ i + reqshift[1] >= 0
                      /\ i + reqshift[1] < Rows(structdis)
                      /\ j + reqshift[2] >= 0
                      /\ j + reqshift[2] < Cols(structdis)
                   THEN At(structdis, i + reqshift[1], j + reqshift[2])
                   ELSE Zero)]],
          Rows(structdis), Cols(structdis))

(***************************************************************************)
(* (tgamma(2/g) / tgamma(1/g)) * sqrt(tgamma(1/g)) / sqrt(tgamma(3/g)) of  *)
(* lines 265-266 for g = gamma_best.  The product is the square root of    *)
(* r_gam of line 164, so it is read from the same table.  For g = 0 the    *)
(* arguments are infinite and the quotient is NaN.                         *)
(***************************************************************************)
TgammaFactor(gamma_index) ==
    IF gamma_index = 0 THEN NaN ELSE FlSqrt(FlMicro(RGamTable[gamma_index]))

\* Lines 219-221: the two features of the MSCN fit.
ScaleFeatures(fit) ==
    << fit.gamma_best,
       FlDiv(FlAdd(FlMul(fit.lsigma_best, fit.lsigma_best),
                   FlMul(fit.rsigma_best, fit.rsigma_best)), FlInt(2)) >>

\* Line 266.
MeanParam(fit) ==
    FlMul(FlSub(fit.rsigma_best, fit.lsigma_best), TgammaFactor(fit.gamma_index))

\* ShiftFeatures with the push_back calls of lines 271 and 272 exchanged.
ShiftFeaturesSwapped(fit) ==
    << fit.gamma_best,
       FlMul(FlSub(fit.rsigma_best, fit.lsigma_best), TgammaFactor(fit.gamma_index)),
       FlMul(fit.rsigma_best, fit.rsigma_best),
       FlMul(fit.lsigma_best, fit.lsigma_best) >>

\* Lines 263-272: the four features of one orientation's fit.
ShiftFeatures(fit) ==
    << fit.gamma_best,
       MeanParam(fit),
       FlMul(fit.lsigma_best, fit.lsigma_best),
       FlMul(fit.rsigma_best, fit.rsigma_best) >>


\* int scalenum = 2, line 187.
scalenum == 2

\* The locals of ComputeBrisqueFeature on entry: the loop of line 188 is about
\* to start with itr_scale = 1; featurevector is the caller's empty vector.
\* fits records, in the order they were made, the fit of every AGGDfit call
\* with the scale and the offset it was made for (offset <<0, 0>> for the
\* MSCN image itself).  shifted_structdis is the local of that name of the
\* last pass of the orientation loop (none before the first).
CbfStart ==
    [pc |-> "scale", itr_scale |-> 1, itr_shift |-> 1, featurevector |-> <<>>,
     structdis |-> <<>>, shifted_structdis |-> <<>>, fits |-> <<>>]

\* Lines 219-221 and the entry to the orientation loop: the two push_back
\* calls for the fit of the MSCN image sd.
ScalePush(c, sd, fit) ==
    [c EXCEPT !.pc = "shift",
              !.itr_shift = 1,
              !.structdis = sd,
              !.featurevector = @ \o ScaleFeatures(fit),
              !.fits = Append(@, [scale |-> c.itr_scale, reqshift |-> <<0, 0>>,
                                  fit |-> fit])]

\* Line 218.
ScaleFit(c, sd) == ScalePush(c, sd, AGGDfit(sd))

\* Lines 190-221, the first half of the body of the scale loop: resize (which
\* throws on an empty dst_size), the MSCN image, its fit and the two
\* push_back calls.
ScalePass(img, c) ==
    IF ScaledRows(img, c.itr_scale) = 0 \/ ScaledCols(img, c.itr_scale) = 0
    THEN [c EXCEPT !.pc = "threw"]
    ELSE ScaleFit(c, MSCN(Resize(Gray(img), ScaledRows(img, c.itr_scale),
                                 ScaledCols(img, c.itr_scale))))

\* Lines 263-272 and the loop headers of lines 227 and 188: the four
\* push_back calls for the fit of the orientation reqshift; after the fourth
\* orientation the scale loop goes on or ends.
ShiftPush(c, reqshift, fit, last) ==
    [c EXCEPT !.featurevector = @ \o ShiftFeatures(fit),
              !.fits = Append(@, [scale |-> c.itr_scale, reqshift |-> reqshift,
                                  fit |-> fit]),
              !.itr_shift = IF last THEN @ ELSE @ + 1,
              !.itr_scale = IF last THEN @ + 1 ELSE @,
              !.pc = IF ~last THEN "shift"
                     ELSE IF c.itr_scale = scalenum THEN "done" ELSE "scale"]

\* Lines 263-273 for the pairwise product shifted: its fit (AGGDfit hands
\* back a clone of its argument, which line 263 assigns to shifted_structdis)
\* and the four push_back calls.
ShiftFit(c, reqshift, shifted) ==
    ShiftPush([c EXCEPT !.shifted_structdis = shifted], reqshift, AGGDfit(shifted),
              c.itr_shift = Len(Shifts))

\* Lines 227-273, one pass of the orientation loop: the pairwise product for
\* shifts[itr_shift - 1] and its fit.  structdis is not written: OrigArr is
\* a clone (line 85) and cv::multiply writes shifted_structdis (line 260).
ShiftPass(c) ==
    ShiftFit(c, Shifts[c.itr_shift], PairwiseProduct(c.structdis, Shifts[c.itr_shift]))

\* The next pass of ComputeBrisqueFeature from the locals c.
CbfPass(img, c) ==
    IF c.pc = "scale" THEN ScalePass(img, c)
    ELSE IF c.pc = "shift" THEN ShiftPass(c)
    ELSE c

\* ComputeBrisqueFeature has returned (line 275) or cv::resize has thrown.
CbfLeft(c) == c.pc \in {"done", "threw"}

\* ComputeBrisqueFeature(orig, featurevector) called with an empty vector:
\* its scalenum * (1 + 4) passes, up to the return or the exception.
ComputeBrisqueFeature(img) ==
    Loop(LAMBDA c, n : CbfPass(img, c), CbfLeft, CbfStart, 1, Span(scalenum * (1 + Len(Shifts))))

\* ------------------------------------------------------------------------
\* brisque_svm_data (lines 24-78)
\* ------------------------------------------------------------------------

\* RANGE_SIZE, line 26.
RANGE_SIZE == 36

\* The trained models a model file may hold.  libsvm is outside this module;
\* a model is a linear regressor given by its offset and its coefficient.
SvmModels == {"A", "B"}

\* svm_load_model(path): the model in the file, "null" for a file that is
\* absent or is no model ("none").
svm_load_model(content) == IF content \in SvmModels THEN content ELSE "null"

\* The sum x[1] + ... + x[n], added in this order from 0.
SumFl(x) ==
    Loop(LAMBDA acc, i : IF i > Len(x) THEN acc ELSE FlAdd(acc, x[i]),
         NoBreak, Zero, 1, Span(Len(x)))

\* svm_predict_probability(model, x, prob_estimates), line 321: the value of
\* the regressor on the node array x.
svm_predict_probability(model, x) ==
    IF model = "A" THEN SumFl(x)
    ELSE FlSub(FlInt(50), FlMul(FlInt(2), SumFl(x)))

\* float min_[36], line 283, in millionths.
MinMicro ==
    << 336999, 19667, 230000, -125959, 167, 616, 231000, -125873, 165, 600,
       241000, -128814, 179, 386, 243000, -133080, 182, 421, 436998, 16929,
       247000, -200231, 104, 834, 257000, -200017, 112, 876, 257000, -155072,
       112, 356, 258000, -154374, 117, 351 >>

\* float max_[36], line 284, in millionths.
MaxMicro ==
    << 9999411, 807472, 1644021, 202917, 712384, 468672, 1644021, 169548,
       713132, 467896, 1553016, 101368, 687324, 533087, 1554016, 101000,
       689177, 533133, 3639918, 800955, 1096995, 175286, 755547, 399270,
       1095995, 155928, 751488, 402398, 1041992, 93209, 623516, 532925,
       1042992, 93714, 621958, 534484 >>

min_ == TableOf([i \in 1..RANGE_SIZE |-> FlMicro(MinMicro[i])], RANGE_SIZE)

max_ == TableOf([i \in 1..RANGE_SIZE |-> FlMicro(MaxMicro[i])], RANGE_SIZE)

(***************************************************************************)
(* A range file is [present, header, rows]: whether fopen finds it, the    *)
(* number of header lines it starts with, and its data lines, each the     *)
(* three numbers <<index, min, max>>.                                      *)
(*   "std"      two header lines and the 36 pairs of lines 283-284         *)
(*   "alt"      two header lines and 36 other pairs (0 and 20)             *)
(*   "noheader" the 36 data lines of "std" without the header lines        *)
(*   "empty"    an existing file of length 0                               *)
(*   "absent"   no file                                                    *)
(***************************************************************************)
RangeFileNames == {"std", "alt", "noheader", "empty", "absent"}

StdRows == TableOf([i \in 1..RANGE_SIZE |-> <<FlInt(i), min_[i], max_[i]>>], RANGE_SIZE)

AltRows == TableOf([i \in 1..RANGE_SIZE |-> <<FlInt(i), Zero, FlInt(20)>>], RANGE_SIZE)

RangeFile(name) ==
    CASE name = "std"      -> [present |-> TRUE, header |-> 2, rows |-> StdRows]
      [] name = "alt"      -> [present |-> TRUE, header |-> 2, rows |-> AltRows]
      [] name = "noheader" -> [present |-> TRUE, header |-> 0, rows |-> StdRows]
      [] name = "empty"    -> [present |-> TRUE, header |-> 0, rows |-> <<>>]
      [] name = "absent"   -> [present |-> FALSE, header |-> 0, rows |-> <<>>]

\* The values an uninitialised float may be read as.
Uninit == {Zero, NaN}

(***************************************************************************)
(* load_range_data, lines 58-77.  It returns false only when fopen fails.  *)
(* The two fgets calls consume two lines, header or not; their results     *)
(* and those of fscanf are not looked at.  A fscanf that finds no numbers  *)
(* leaves b and c, locals declared without a value in the loop body,       *)
(* unwritten: what is then copied is what the build left in them, the      *)
(* values of the last successful read (stale) or any other value u.        *)
(***************************************************************************)
load_range_data(file, u, stale) ==
    IF ~file.present
    THEN [ok |-> FALSE, range_min |-> <<>>, range_max |-> <<>>]
    ELSE LET eaten == IF 2 - file.header < Len(file.rows)
                      THEN 2 - file.header ELSE Len(file.rows)
             left  == Len(file.rows) - eaten
             read(i, col) ==
                 IF i <= left THEN file.rows[eaten + i][col]
                 ELSE IF stale /\ left > 0 THEN file.rows[eaten + left][col]
                 ELSE u
         IN  [ok |-> TRUE,
              range_min |-> TableOf([i \in 1..RANGE_SIZE |-> read(i, 2)], RANGE_SIZE),
              range_max |-> TableOf([i \in 1..RANGE_SIZE |-> read(i, 3)], RANGE_SIZE)]

\* No QualityBRISQUE object: _svm_data holds nothing.
NoObject ==
    [alive |-> "none", model |-> "null", range_min |-> <<>>, range_max |-> <<>>,
     model_file |-> "none", range_file |-> "absent"]

(***************************************************************************)
(* The constructors, lines 37-45 and 387-414, for a model path and a range *)
(* path given by what they lead to: "nopath" is an empty argument with     *)
(* OPENCV_DIR unset, any other value the content of the file at the path   *)
(* (the argument, or the default under OPENCV_DIR).  The result is the     *)
(* exception thrown, or the object; model_file and range_file record the   *)
(* arguments.                                                              *)
(***************************************************************************)
ModelArgs == SvmModels \cup {"none", "nopath"}

RangeArgs == RangeFileNames \cup {"nopath"}

QualityBRISQUE(model_file, range_file, u, stale) ==
    IF model_file = "nopath" \/ range_file = "nopath"
    THEN [error |-> "StsObjectNotFound", obj |-> NoObject]
    ELSE IF svm_load_model(model_file) = "null"
    THEN [error |-> "StsParseError", obj |-> NoObject]
    ELSE LET loaded == load_range_data(RangeFile(range_file), u, stale)
         IN  IF ~loaded.ok
             THEN [error |-> "StsParseError", obj |-> NoObject]
             ELSE [error |-> "none",
                   obj |-> [alive |-> "live", model |-> svm_load_model(model_file),
                            range_min |-> loaded.range_min,
                            range_max |-> loaded.range_max,
                            model_file |-> model_file, range_file |-> range_file]]

\* ~brisque_svm_data, lines 48-55, through the deleter of lines 361-371.
Deleted(o) == [NoObject EXCEPT !.alive = "destroyed"]

\* ------------------------------------------------------------------------
\* computescore and compute (lines 278-358, 416-421)
\* ------------------------------------------------------------------------

\* Lines 308-314: x[i].value for the features, with the tables lo and hi.
Rescale(brisqueFeatures, lo, hi) ==
    TableOf([i \in 1..RANGE_SIZE |->
                FlAdd(FlInt(-1),
                      FlMul(FlDiv(FlInt(2), FlSub(hi[i], lo[i])),
                            FlSub(brisqueFeatures[i], lo[i])))], RANGE_SIZE)

\* Lines 296-324 once the model file "allmodel" of the working directory is
\* loaded: the score of the features.  Neither svm_data.model nor
\* svm_data.range_min/range_max is read (the TODO of line 280): the tables
\* are min_ and max_, the model is the one just loaded.
QualityScore(svm_data, model, brisqueFeatures) ==
    svm_predict_probability(model, Rescale(brisqueFeatures, min_, max_))

\* SvmDataAfterScore with line 324 freeing svm_data.model.
SvmDataModelFreed(svm_data) == [svm_data EXCEPT !.model = "null"]

\* svm_data after computescore: line 324 frees the model computescore loaded,
\* and svm_data is a reference to const.
SvmDataAfterScore(svm_data) == svm_data

\* AverageResult with sz > 2 in place of sz > 1 in line 354.
AverageResultOverTwo(result, sz) ==
    IF sz > 2 THEN FlDiv(result, FlInt(sz)) ELSE result

\* Lines 354-355: the result for sz frames from the sum of their scores.
AverageResult(result, sz) ==
    IF sz > 1 THEN FlDiv(result, FlInt(sz)) ELSE result

\* ------------------------------------------------------------------------
\* The inputs
\* ------------------------------------------------------------------------

\* Image sides are 1, HalfDim and 2 * HalfDim.
HalfDim == 3

Dims == {1, HalfDim, 2 * HalfDim}

Images == [rows : Dims, cols : Dims, pat : Patterns]

\* The frames passed to compute, and for each what ComputeBrisqueFeature
\* leaves (its locals at the return or at the exception).
Frames ==
    << [rows |-> 2 * HalfDim, cols |-> 2 * HalfDim, pat |-> "ramp"],
       [rows |-> 2 * HalfDim, cols |-> 2 * HalfDim, pat |-> "tex"],
       [rows |-> 1, cols |-> 1, pat |-> "flat"] >>

FrameFeatures ==
    << ComputeBrisqueFeature(Frames[1]),
       ComputeBrisqueFeature(Frames[2]),
       ComputeBrisqueFeature(Frames[3]) >>

\* The longest sequence of frames passed to one compute call.
MaxFrames == 2

FrameSeqs == UNION {[1..n -> 1..Len(Frames)] : n \in 0..MaxFrames}

\* The coefficient fields given to AGGDfit on its own: 2 x 2 fields of the
\* values -MaxCell..MaxCell.
MaxCell == 2

Fields == [0..1 -> [0..1 -> (-MaxCell)..MaxCell]]

FieldMat(f) == MatOf([i \in 0..1 |-> [j \in 0..1 |-> FlInt(f[i][j])]], 2, 2)

\* ------------------------------------------------------------------------
\* The state
\* ------------------------------------------------------------------------

(***************************************************************************)
(* proc      "running", or "exited" once exit(1) was called                *)
(* cwdModel  what the file "allmodel" of the working directory holds       *)
(* obj       the QualityBRISQUE object and its _svm_data                   *)
(* call      the compute call in progress: its frames imgs (indices into   *)
(*           Frames), the loop index i of line 348 (from 1), result,       *)
(*           brisqueFeatures of the computescore in progress; scores       *)
(*           records the value of each computescore that returned          *)
(* outcome   what the last create or compute gave its caller               *)
(* first     for each frame, the score of the first single-frame compute   *)
(*           on obj and the number of such calls (counted to 2)            *)
(* orig, cbf the image and the locals of a ComputeBrisqueFeature call      *)
(* field, agg  the coefficient field and the locals of an AGGDfit call     *)
(***************************************************************************)
VARIABLES proc, cwdModel, obj, call, outcome, first, orig, cbf, field, agg

vars == <<proc, cwdModel, obj, call, outcome, first, orig, cbf, field, agg>>

IdleCall ==
    [pc |-> "idle", imgs |-> <<>>, i |-> 0, result |-> Zero, brisqueFeatures |-> <<>>,
     scores |-> <<>>]

NoOutcome == [kind |-> "none", code |-> "none", value |-> Zero, imgs |-> <<>>, scores |-> <<>>]

Thrown(code) == [NoOutcome EXCEPT !.kind = "error", !.code = code]

NoFirst == [f \in 1..Len(Frames) |-> [score |-> Zero, times |-> 0]]

NoFit ==
    [lsigma_best |-> Zero, rsigma_best |-> Zero, gamma_best |-> Zero, gamma_index |-> 0,
     examined |-> 0, rhatnorm |-> Zero, poscount |-> 0, negcount |-> 0]

\* No call of ComputeBrisqueFeature or AGGDfit on its own is in progress.
CbfOff == [CbfStart EXCEPT !.pc = "off"]

AggOff == [pc |-> "off", acc |-> AggdStart, fit |-> NoFit]

FieldOff == [i \in 0..1 |-> [j \in 0..1 |-> 0]]

\* A process that holds no object yet; the file system does not change.
Init ==
    /\ proc = "running"
    /\ cwdModel \in SvmModels \cup {"none"}
    /\ obj = NoObject
    /\ call = IdleCall
    /\ outcome = NoOutcome
    /\ first = NoFirst
    /\ orig = Frames[3]
    /\ cbf = CbfOff
    /\ field = FieldOff
    /\ agg = AggOff

\* QualityBRISQUE::create (lines 374-377) with any two arguments.
Create ==
    /\ proc = "running"
    /\ call.pc = "idle"
    /\ obj.alive # "live"
    /\ \E model_file \in ModelArgs, range_file \in RangeArgs, u \in Uninit, stale \in BOOLEAN :
          LET made == QualityBRISQUE(model_file, range_file, u, stale)
          IN  IF made.error = "none"
              THEN /\ obj' = made.obj
                   /\ outcome' = [NoOutcome EXCEPT !.kind = "created"]
                   /\ first' = NoFirst
              ELSE /\ outcome' = Thrown(made.error)
                   /\ UNCHANGED <<obj, first>>
    /\ UNCHANGED <<proc, cwdModel, call, orig, cbf, field, agg>>

\* The last Ptr to the object goes away: the deleter runs.
Destroy ==
    /\ proc = "running"
    /\ call.pc = "idle"
    /\ obj.alive = "live"
    /\ obj' = Deleted(obj)
    /\ UNCHANGED <<proc, cwdModel, call, outcome, first, orig, cbf, field, agg>>

\* QualityBRISQUE::compute (lines 416-421) up to the loop of line 348: the
\* CV_Assert of line 342 throws for no frames.
Compute ==
    /\ proc = "running"
    /\ call.pc = "idle"
    /\ obj.alive = "live"
    /\ \E imgs \in FrameSeqs :
          IF Len(imgs) = 0
          THEN /\ outcome' = Thrown("StsAssert")
               /\ call' = call
          ELSE /\ outcome' = NoOutcome
               /\ call' = [IdleCall EXCEPT !.pc = "extract", !.imgs = imgs, !.i = 1]
    /\ UNCHANGED <<proc, cwdModel, obj, first, orig, cbf, field, agg>>

\* computescore, lines 288-289: the features of frame i; an exception of
\* ComputeBrisqueFeature ends the compute call.
ExtractFrame ==
    /\ proc = "running"
    /\ call.pc = "extract"
    /\ LET c == FrameFeatures[call.imgs[call.i]]
       IN  IF c.pc = "threw"
           THEN /\ call' = IdleCall
                /\ outcome' = Thrown("StsAssert")
           ELSE /\ call' = [call EXCEPT !.pc = "score",
                                        !.brisqueFeatures = c.featurevector]
                /\ outcome' = outcome
    /\ UNCHANGED <<proc, cwdModel, obj, first, orig, cbf, field, agg>>

\* computescore, lines 293-325, and cv::add of line 351: exit(1) when
\* "allmodel" does not load, else the score of frame i is added to result.
ScoreFrame ==
    /\ proc = "running"
    /\ call.pc = "score"
    /\ IF svm_load_model(cwdModel) = "null"
       THEN /\ proc' = "exited"
            /\ UNCHANGED <<obj, call>>
       ELSE LET qualityscore ==
                    QualityScore(obj, svm_load_model(cwdModel), call.brisqueFeatures)
                more == call.i < Len(call.imgs)
            IN  /\ proc' = proc
                /\ obj' = SvmDataAfterScore(obj)
                /\ call' = [call EXCEPT !.result = FlAdd(@, qualityscore),
                                        !.scores = Append(@, qualityscore),
                                        !.brisqueFeatures = <<>>,
                                        !.i = IF more THEN @ + 1 ELSE @,
                                        !.pc = IF more THEN "extract" ELSE "return"]
    /\ UNCHANGED <<cwdModel, outcome, first, orig, cbf, field, agg>>

\* Lines 354-357: the average and the return of compute.
Return ==
    /\ proc = "running"
    /\ call.pc = "return"
    /\ LET value == AverageResult(call.result, Len(call.imgs))
       IN  /\ outcome' = [kind |-> "score", code |-> "none", value |-> value,
                          imgs |-> call.imgs, scores |-> call.scores]
           /\ first' = IF Len(call.imgs) # 1 THEN first
                       ELSE [first EXCEPT ![call.imgs[1]] =
                                [score |-> IF @.times = 0 THEN value ELSE @.score,
                                 times |-> IF @.times < 2 THEN @.times + 1 ELSE @.times]]
    /\ call' = IdleCall
    /\ UNCHANGED <<proc, cwdModel, obj, orig, cbf, field, agg>>

Next == Create \/ Destroy \/ Compute \/ ExtractFrame \/ ScoreFrame \/ Return

Spec == Init /\ [][Next]_vars

\* ------------------------------------------------------------------------
\* ComputeBrisqueFeature on its own, one call per image
\* ------------------------------------------------------------------------

FeatureInit ==
    /\ proc = "off"
    /\ cwdModel = "none"
    /\ obj = NoObject
    /\ call = IdleCall
    /\ outcome = NoOutcome
    /\ first = NoFirst
    /\ orig \in Images
    /\ cbf = CbfStart
    /\ field = FieldOff
    /\ agg = AggOff

ScaleStep ==
    /\ cbf.pc = "scale"
    /\ cbf' = ScalePass(orig, cbf)
    /\ UNCHANGED <<proc, cwdModel, obj, call, outcome, first, orig, field, agg>>

ShiftStep ==
    /\ cbf.pc = "shift"
    /\ cbf' = ShiftPass(cbf)
    /\ UNCHANGED <<proc, cwdModel, obj, call, outcome, first, orig, field, agg>>

FeatureNext == ScaleStep \/ ShiftStep

FeatureSpec == FeatureInit /\ [][FeatureNext]_vars

\* ------------------------------------------------------------------------
\* AGGDfit on its own, one call per coefficient field
\* ------------------------------------------------------------------------

FitInit ==
    /\ proc = "off"
    /\ cwdModel = "none"
    /\ obj = NoObject
    /\ call = IdleCall
    /\ outcome = NoOutcome
    /\ first = NoFirst
    /\ orig = Frames[3]
    /\ cbf = CbfOff
    /\ field \in Fields
    /\ agg = [AggOff EXCEPT !.pc = "sums"]

\* Lines 129-149.
AccumulateStep ==
    /\ agg.pc = "sums"
    /\ agg' = [agg EXCEPT !.pc = "search",
                          !.acc = AggdSums(FieldMat(field),
                                           Rows(FieldMat(field)) * Cols(FieldMat(field)))]
    /\ UNCHANGED <<proc, cwdModel, obj, call, outcome, first, orig, cbf, field>>

\* Lines 151-172.
SearchStep ==
    /\ agg.pc = "search"
    /\ agg' = [agg EXCEPT !.pc = "fitted",
                          !.fit = AggdEstimate(agg.acc,
                                               Cols(FieldMat(field)) * Rows(FieldMat(field)))]
    /\ UNCHANGED <<proc, cwdModel, obj, call, outcome, first, orig, cbf, field>>

FitNext == AccumulateStep \/ SearchStep

FitSpec == FitInit /\ [][FitNext]_vars

\* ------------------------------------------------------------------------
\* Properties
\* ------------------------------------------------------------------------

\* The j-th AGGDfit call of a ComputeBrisqueFeature call that has returned,
\* and the index (from 1) of the first feature written for scale s.
FitOf(s, n) == cbf.fits[(1 + Len(Shifts)) * (s - 1) + n]

ScaleBase(s) == (2 + 4 * Len(Shifts)) * (s - 1)

HalfSumOfSquares(fit) ==
    FlDiv(FlAdd(FlMul(fit.lsigma_best, fit.lsigma_best),
                FlMul(fit.rsigma_best, fit.rsigma_best)), FlInt(2))

\* C1: when ComputeBrisqueFeature returns, the vector holds exactly 36
\* features; for scale s in {1, 2} the two features from index 18(s-1)
\* (counted from 0) are gamma and (lsigma^2 + rsigma^2) / 2 of the fit of
\* that scale's MSCN image, and for orientation k in 0..3, in the order
\* horizontal, vertical, main diagonal, anti-diagonal, the four features from
\* index 18(s-1) + 2 + 4k are gamma, meanParam, lsigma^2 and rsigma^2 of the
\* fit of that orientation's pairwise product.
C1_FeatureLayout ==
    cbf.pc = "done" =>
        /\ Len(cbf.featurevector) = 36
        /\ Len(cbf.fits) = 10
        /\ \A s \in 1..2 :
              /\ FitOf(s, 1).scale = s
              /\ FitOf(s, 1).reqshift = <<0, 0>>
              /\ cbf.featurevector[ScaleBase(s) + 1] = FitOf(s, 1).fit.gamma_best
              /\ cbf.featurevector[ScaleBase(s) + 2] = HalfSumOfSquares(FitOf(s, 1).fit)
              /\ \A k \in 0..3 :
                    LET entry == FitOf(s, 2 + k)
                        at == ScaleBase(s) + 2 + 4 * k
                    IN  /\ entry.scale = s
                        /\ entry.reqshift = << <<0, 1>>, <<1, 0>>, <<1, 1>>, <<-1, 1>> >>[k + 1]
                        /\ cbf.featurevector[at + 1] = entry.fit.gamma_best
                        /\ cbf.featurevector[at + 2] = MeanParam(entry.fit)
                        /\ cbf.featurevector[at + 3] =
                               FlMul(entry.fit.lsigma_best, entry.fit.lsigma_best)
                        /\ cbf.featurevector[at + 4] =
                               FlMul(entry.fit.rsigma_best, entry.fit.rsigma_best)
        /\ FitOf(2, 1).fit = AGGDfit(cbf.structdis)
        /\ \A k \in 0..3 :
              FitOf(2, 2 + k).fit = AGGDfit(PairwiseProduct(cbf.structdis, Shifts[k + 1]))

\* A textured image of the largest size has gone through both scales and every
\* feature is a number.
C1_Witness ==
    /\ cbf.pc = "done"
    /\ orig.pat = "tex"
    /\ orig.rows = 2 * HalfDim
    /\ orig.cols = 2 * HalfDim
    /\ \A i \in 1..Len(cbf.featurevector) : IsNum(cbf.featurevector[i])
    /\ \E j \in 1..Len(cbf.fits) :
          cbf.fits[j].fit.lsigma_best # cbf.fits[j].fit.rsigma_best

\* C2: a score comes from the SVM model loaded from the model file given at
\* creation, applied to the features rescaled with the range table loaded
\* from the range file given at creation.
C2_ScoreFromCreationData ==
    \A j \in 1..Len(call.scores) :
        call.scores[j] =
            svm_predict_probability(obj.model,
                Rescale(FrameFeatures[call.imgs[j]].featurevector,
                        obj.range_min, obj.range_max))

\* C3: compute on n > 1 frames returns the arithmetic mean of the frames'
\* scores, and on one frame that frame's score unmodified.
C3_MeanOfFrames ==
    outcome.kind = "score" =>
        /\ Len(outcome.scores) = Len(outcome.imgs)
        /\ Len(outcome.imgs) >= 1
        /\ \A j \in 1..Len(outcome.imgs) :
              outcome.scores[j] =
                  QualityScore(NoObject, svm_load_model(cwdModel),
                               FrameFeatures[outcome.imgs[j]].featurevector)
        /\ outcome.value =
              IF Len(outcome.imgs) > 1
              THEN FlDiv(SumFl(outcome.scores), FlInt(Len(outcome.imgs)))
              ELSE outcome.scores[1]

\* A compute on two different frames has returned a number that is neither
\* frame's score.
C3_Witness ==
    /\ outcome.kind = "score"
    /\ Len(outcome.imgs) = 2
    /\ outcome.imgs[1] # outcome.imgs[2]
    /\ IsNum(outcome.value)
    /\ outcome.value # outcome.scores[1]
    /\ outcome.value # outcome.scores[2]

\* C4: no scoring call ends the process.
C4_ProcessSurvives == proc # "exited"

\* C5: an object exists only if its range file was there and was well formed
\* (a header and 36 rows of index, minimum, maximum).
C5_RangeFileValidated ==
    obj.alive = "live" => obj.range_file \in {"std", "alt"}

\* The image falls below the 7 x 7 window of line 198 at one of the two scales.
BelowWindow(img) ==
    \E s \in 1..scalenum : ScaledRows(img, s) < 7 \/ ScaledCols(img, s) < 7

\* C6: for an image with fewer than 7 rows or 7 columns at either scale,
\* ComputeBrisqueFeature fails and produces no feature at all.
C6_SmallImageRejected ==
    BelowWindow(orig) => (cbf.pc # "done" /\ cbf.featurevector = <<>>)

\* The features at the positions of a gamma value, counted from 1.
GammaPositions == {18 * s + p : s \in 0..1, p \in {1, 3, 7, 11, 15}}

C8_StablePerObject ==
    /\ [](outcome.kind = "score" /\ Len(outcome.imgs) = 1
              => outcome.value = first[outcome.imgs[1]].score)
    /\ [][(obj.alive = "live" /\ obj' # obj)
              => (call.pc = "idle" /\ obj'.alive = "destroyed")]_vars

\* The second compute on the same image of one live object has returned.
C8_Witness ==
    /\ obj.alive = "live"
    /\ outcome.kind = "score"
    /\ Len(outcome.imgs) = 1
    /\ first[outcome.imgs[1]].times = 2
    /\ IsNum(outcome.value)

\* C9: the gamma AGGDfit returns lies strictly between 0 and 10.
C9_GammaRange ==
    agg.pc = "fitted" =>
        /\ IsNum(agg.fit.gamma_best)
        /\ FlGt(agg.fit.gamma_best, Zero)
        /\ FlLt(agg.fit.gamma_best, FlInt(10))

\* A fit whose rhatnorm is NaN (a field with no positive or no negative
\* value) has returned the last candidate.
C9_Witness ==
    /\ agg.pc = "fitted"
    /\ IsNaN(agg.fit.rhatnorm)
    /\ agg.fit.gamma_index = NumGam

\* C10: the search takes the candidates 0.2, 0.201, ... in increasing order,
\* stops at the first candidate whose |r_gam - rhatnorm| is greater than the
\* previous candidate's, and returns the previous candidate: the first local
\* minimum of the difference, or the last candidate when there is none.
C10_FirstLocalMinimum ==
    agg.pc = "fitted" =>
        LET k == agg.fit.gamma_index
            rc == RhatClass(agg.fit.rhatnorm)
        IN  /\ k \in 1..NumGam
            /\ agg.fit.gamma_best = FlAdd(FlMicro(200000), FlMicro(1000 * (k - 1)))
            /\ ~DiffGreater(DiffOf(1, rc), InitialPrevdiff)
            /\ \A j \in 1..(k - 1) : ~DiffGreater(DiffOf(j + 1, rc), DiffOf(j, rc))
            /\ k < NumGam => /\ DiffGreater(DiffOf(k + 1, rc), DiffOf(k, rc))
                             /\ agg.fit.examined = k + 1
            /\ k = NumGam => agg.fit.examined = NumGam

\* A search that stopped between the first and the last candidate.
C10_Witness ==
    /\ agg.pc = "fitted"
    /\ agg.fit.gamma_index > 1
    /\ agg.fit.examined = agg.fit.gamma_index + 1
    /\ agg.fit.examined < NumGam

\* The cells of a coefficient field given to AGGDfit on its own, and its sums
\* as integers: the squares of the negative cells, the squares of the
\* positive cells, the absolute values.
FieldCells == (0..1) \X (0..1)

NegCells == {c \in FieldCells : field[c[1]][c[2]] < 0}

PosCells == {c \in FieldCells : field[c[1]][c[2]] > 0}

NegSquare(v) == IF v < 0 THEN v * v ELSE 0

PosSquare(v) == IF v > 0 THEN v * v ELSE 0

NegSqSumOfField ==
    NegSquare(field[0][0]) + NegSquare(field[0][1])
        + NegSquare(field[1][0]) + NegSquare(field[1][1])

PosSqSumOfField ==
    PosSquare(field[0][0]) + PosSquare(field[0][1])
        + PosSquare(field[1][0]) + PosSquare(field[1][1])

AbsSumOfField ==
    AbsInt(field[0][0]) + AbsInt(field[0][1]) + AbsInt(field[1][0]) + AbsInt(field[1][1])

LeftSquare == FlDiv(FlInt(NegSqSumOfField), FlInt(Cardinality(NegCells)))

RightSquare == FlDiv(FlInt(PosSqSumOfField), FlInt(Cardinality(PosCells)))

GammaHatOfField == FlDiv(FlSqrt(LeftSquare), FlSqrt(RightSquare))

RhatOfField ==
    FlDiv(FlMul(FlDiv(FlInt(AbsSumOfField), FlInt(Cardinality(FieldCells))),
                FlDiv(FlInt(AbsSumOfField), FlInt(Cardinality(FieldCells)))),
          FlDiv(FlInt(NegSqSumOfField + PosSqSumOfField), FlInt(Cardinality(FieldCells))))

RhatNormOfField ==
    FlDiv(FlMul(FlMul(RhatOfField,
                      FlAdd(FlMul(FlMul(GammaHatOfField, GammaHatOfField), GammaHatOfField),
                            FlInt(1))),
                FlAdd(GammaHatOfField, FlInt(1))),
          FlMul(FlAdd(FlMul(GammaHatOfField, GammaHatOfField), FlInt(1)),
                FlAdd(FlMul(GammaHatOfField, GammaHatOfField), FlInt(1))))

\* C11: for a field with at least one strictly positive and one strictly
\* negative value, lsigma^2 = negsqsum / negcount and rsigma^2 = possqsum /
\* poscount, where a zero cell is counted in neither count and adds nothing to
\* negsqsum, possqsum or abssum but is counted in totalcount = width * height;
\* rhatnorm = ((abssum / totalcount)^2 / ((negsqsum + possqsum) / totalcount))
\* * (gammahat^3 + 1)(gammahat + 1) / (gammahat^2 + 1)^2 with gammahat =
\* lsigma / rsigma.  The field [[-2, -1], [1, 2]] gives lsigma^2 = rsigma^2 =
\* 2.5, gammahat = 1 and rhatnorm = 0.9.
C11_Moments ==
    (agg.pc = "fitted" /\ NegCells # {} /\ PosCells # {}) =>
        /\ agg.acc.negcount = Cardinality(NegCells)
        /\ agg.acc.poscount = Cardinality(PosCells)
        /\ agg.acc.negsqsum = FlInt(NegSqSumOfField)
        /\ agg.acc.possqsum = FlInt(PosSqSumOfField)
        /\ agg.acc.abssum = FlInt(AbsSumOfField)
        /\ agg.fit.negcount = Cardinality(NegCells)
        /\ agg.fit.poscount = Cardinality(PosCells)
        /\ agg.fit.lsigma_best = FlSqrt(LeftSquare)
        /\ agg.fit.rsigma_best = FlSqrt(RightSquare)
        /\ agg.fit.rhatnorm = RhatNormOfField
        /\ field = [i \in 0..1 |-> [j \in 0..1 |-> << <<-2, -1>>, <<1, 2>> >>[i + 1][j + 1]]]
              => /\ LeftSquare = Norm(25, -1)
                 /\ RightSquare = Norm(25, -1)
                 /\ GammaHatOfField = FlInt(1)
                 /\ agg.fit.rhatnorm = Norm(9, -1)

\* The fit of the field [[-2, -1], [1, 2]] has been made.
C11_Witness ==
    /\ agg.pc = "fitted"
    /\ field[0][0] = -2
    /\ field[0][1] = -1
    /\ field[1][0] = 1
    /\ field[1][1] = 2
    /\ agg.fit.negcount = 2
    /\ agg.fit.poscount = 2
    /\ IsNum(agg.fit.rhatnorm)


\* The last AGGDfit call made so far was for an orientation.
OrientationFitted ==
    /\ Len(cbf.fits) > 0
    /\ cbf.fits[Len(cbf.fits)].reqshift # <<0, 0>>

\* Cell (i, j) moved by the offset d lies inside the field F.
InsideField(F, i, j, d) ==
    /\ i + d[1] >= 0
    /\ i + d[1] < Len(F)
    /\ j + d[2] >= 0
    /\ j + d[2] < Len(F[1])

\* C12: for each of the offsets (0, +1), (+1, 0), (+1, +1), (-1, +1) (row,
\* column) and an R x C field F, the pairwise product field has exactly R x C
\* cells; cell (i, j) is F[i][j] * F[i + dr][j + dc] when (i + dr, j + dc)
\* lies inside the field and 0 otherwise; and F itself is left as it was for
\* the next orientation.
C12_PairwiseProduct ==
    /\ [](OrientationFitted =>
            LET F == cbf.structdis
                P == cbf.shifted_structdis
                d == cbf.fits[Len(cbf.fits)].reqshift
            IN  /\ d = << <<0, 1>>, <<1, 0>>, <<1, 1>>, <<-1, 1>> >>
                           [((Len(cbf.fits) - 1) % 5)]
                /\ Len(P) = Len(F)
                /\ \A i \in 1..Len(F) : Len(P[i]) = Len(F[i])
                /\ \A i \in 0..(Len(F) - 1) : \A j \in 0..(Len(F[1]) - 1) :
                      P[i + 1][j + 1] =
                          IF InsideField(F, i, j, d)
                          THEN FlMul(F[i + 1][j + 1], F[i + 1 + d[1]][j + 1 + d[2]])
                          ELSE Zero)
    /\ [][cbf.pc = "shift" => cbf'.structdis = cbf.structdis]_vars

\* The anti-diagonal product of a textured image of the largest size has been
\* made at scale 1: it has a non-zero cell, and zero cells where the offset
\* leaves the field.
C12_Witness ==
    /\ OrientationFitted
    /\ orig.pat = "tex"
    /\ orig.rows = 2 * HalfDim
    /\ orig.cols = 2 * HalfDim
    /\ Len(cbf.fits) = 5
    /\ cbf.fits[5].reqshift = <<-1, 1>>
    /\ Len(cbf.shifted_structdis) = 2 * HalfDim
    /\ \E i \in 1..Len(cbf.shifted_structdis) : \E j \in 1..Len(cbf.shifted_structdis[i]) :
          cbf.shifted_structdis[i][j] # Zero
    /\ \A j \in 1..Len(cbf.shifted_structdis[1]) : cbf.shifted_structdis[1][j] = Zero
====
